---- MODULE Spec2Model ----
(***************************************************************************)
(* Kalshi dashboard: the analytics library (api/stats.js and the           *)
(* correlation functions), the paginating loaders and the Scanner and      *)
(* CorrelationChart scan orchestration, as a state machine.                *)
(*                                                                         *)
(* Conventions.  A JavaScript string is a sequence of one-character        *)
(* strings.  An optional value is <<>> (null / undefined) or <<v>>.  A     *)
(* record field that is absent in JavaScript is absent from the record.    *)
(* A JavaScript number that is not an integer is an exact fraction         *)
(* [n |-> numerator, d |-> denominator] with d > 0.                        *)
(***************************************************************************)
EXTENDS Integers, Sequences, FiniteSets, TLC

(***************************************************************************)
(* Strings                                                                 *)
(***************************************************************************)
UpperChars == <<"A","B","C","D","E","F","G","H","I","J","K","L","M","N","O","P","Q","R","S","T","U","V","W","X","Y","Z">>

LowerChars == <<"a","b","c","d","e","f","g","h","i","j","k","l","m","n","o","p","q","r","s","t","u","v","w","x","y","z">>

DigitChars == <<"0","1","2","3","4","5","6","7","8","9">>

SpaceChars == {" ", "\t", "\n"}

Range(s) == {s[i] : i \in 1..Len(s)}

IndexOf(c, s) == IF \E i \in 1..Len(s) : s[i] = c
                 THEN CHOOSE i \in 1..Len(s) : s[i] = c
                 ELSE 0

\* String.prototype.toLowerCase, one character
LowerChar(c) == IF IndexOf(c, UpperChars) > 0 THEN LowerChars[IndexOf(c, UpperChars)] ELSE c

\* String.prototype.toUpperCase, one character
UpperChar(c) == IF IndexOf(c, LowerChars) > 0 THEN UpperChars[IndexOf(c, LowerChars)] ELSE c

toLowerCase(s) == [i \in 1..Len(s) |-> LowerChar(s[i])]

toUpperCase(s) == [i \in 1..Len(s) |-> UpperChar(s[i])]

\* String.prototype.trim: white space removed at both ends
trim(s) ==
  LET nonSpace == {i \in 1..Len(s) : s[i] \notin SpaceChars}
  IN IF nonSpace = {} THEN <<>>
     ELSE LET lo == CHOOSE i \in nonSpace : \A j \in nonSpace : i <= j
              hi == CHOOSE i \in nonSpace : \A j \in nonSpace : j <= i
          IN SubSeq(s, lo, hi)

\* String.prototype.includes: t occurs in s as a substring
includes(s, t) == \E k \in 0..(Len(s) - Len(t)) : SubSeq(s, k + 1, k + Len(t)) = t

\* the character class [a-z0-9\s] of extractKeywords
IsKeywordChar(c) == c \in Range(LowerChars) \cup Range(DigitChars) \cup SpaceChars

\* text.replace(/[^a-z0-9\s]/g, ' ')
StripPunctuation(s) == [i \in 1..Len(s) |-> IF IsKeywordChar(s[i]) THEN s[i] ELSE " "]

\* text.split(/\s+/): the maximal runs without white space, in order; a
\* leading or trailing run of white space yields an empty piece, as in
\* JavaScript, and so does the empty string
splitSpaces(s) ==
  LET Space(i) == s[i] \in SpaceChars
      starts == {i \in 1..Len(s) : ~Space(i) /\ (i = 1 \/ Space(i - 1))}
      ends == {j \in 1..Len(s) : ~Space(j) /\ (j = Len(s) \/ Space(j + 1))}
      Nth(set, k) == CHOOSE i \in set : Cardinality({q \in set : q < i}) = k - 1
      edge == <<<<>>>>
  IN (IF Len(s) = 0 \/ Space(1) THEN edge ELSE <<>>)
     \o [k \in 1..Cardinality(starts) |-> SubSeq(s, Nth(starts, k), Nth(ends, k))]
     \o (IF Len(s) > 0 /\ Space(Len(s)) THEN edge ELSE <<>>)

(***************************************************************************)
(* The correlation functions (components/Scanner.jsx)                      *)
(***************************************************************************)
STOP_WORDS == {
    <<"t","h","e">>, <<"a">>, <<"a","n">>, <<"i","s">>, <<"a","r","e">>, <<"w","a","s">>,
    <<"w","e","r","e">>, <<"b","e">>, <<"b","e","e","n">>, <<"b","e","i","n","g">>,
    <<"w","i","l","l">>, <<"w","o","u","l","d">>, <<"c","o","u","l","d">>,
    <<"s","h","o","u","l","d">>, <<"m","a","y">>, <<"m","i","g","h","t">>, <<"s","h","a","l","l">>,
    <<"c","a","n">>, <<"d","o">>, <<"d","o","e","s">>, <<"d","i","d">>, <<"h","a","v","e">>,
    <<"h","a","s">>, <<"h","a","d">>, <<"h","a","v","i","n","g">>, <<"i","n">>, <<"o","n">>,
    <<"a","t">>, <<"t","o">>, <<"f","o","r">>, <<"o","f">>, <<"w","i","t","h">>, <<"b","y">>,
    <<"f","r","o","m">>, <<"a","s">>, <<"a","n","d">>, <<"o","r">>, <<"n","o","t">>, <<"n","o">>,
    <<"y","e","s">>, <<"b","u","t">>, <<"i","f">>, <<"t","h","a","n">>, <<"t","h","a","t">>,
    <<"t","h","i","s">>, <<"i","t">>, <<"i","t","s">>, <<"w","h","a","t">>,
    <<"w","h","i","c","h">>, <<"w","h","o">>, <<"w","h","o","m">>, <<"h","o","w">>,
    <<"w","h","e","n">>, <<"w","h","e","r","e">>, <<"b","e","f","o","r","e">>,
    <<"a","f","t","e","r">>, <<"a","b","o","v","e">>, <<"b","e","l","o","w">>,
    <<"b","e","t","w","e","e","n">>, <<"o","v","e","r">>, <<"u","n","d","e","r">>,
    <<"m","o","r","e">>, <<"m","o","s","t">>, <<"o","t","h","e","r">>, <<"s","o","m","e">>,
    <<"a","n","y">>, <<"a","l","l">>, <<"e","a","c","h">>, <<"e","v","e","r","y">>,
    <<"a","b","o","u","t">>, <<"u","p">>, <<"o","u","t">>, <<"i","n","t","o">>,
    <<"t","h","r","o","u","g","h">>, <<"d","u","r","i","n","g">>, <<"a","g","a","i","n","s","t">>,
    <<"n","e","x","t">>, <<"n","e","w">>, <<"f","i","r","s","t">>, <<"l","a","s","t">>,
    <<"g","e","t">>, <<"b","e","c","o","m","e">>, <<"p","e","r">>
}

IsKeyword(w) == Len(w) > 2 /\ w \notin STOP_WORDS

\* extractKeywords with the filter on the length alone
extractKeywordsKeepStopWords(text) ==
  IF text = <<>> THEN <<>>
  ELSE SelectSeq(splitSpaces(StripPunctuation(toLowerCase(text))), LAMBDA w : Len(w) > 2)

\* extractKeywords(text); text is a string, the empty string included
extractKeywords(text) ==
  IF text = <<>> THEN <<>>
  ELSE SelectSeq(splitSpaces(StripPunctuation(toLowerCase(text))), IsKeyword)

\* keywordSimilarity with the union taken as the words of kwA alone
keywordSimilarityOverFirst(kwA, kwB) ==
  IF Len(kwA) = 0 \/ Len(kwB) = 0 THEN [n |-> 0, d |-> 1]
  ELSE LET setA == Range(kwA)
           setB == Range(kwB)
           intersection == Cardinality(setA \cap setB)
           union == Cardinality(setA)
       IN IF union = 0 THEN [n |-> 0, d |-> 1] ELSE [n |-> intersection, d |-> union]

\* keywordSimilarity(kwA, kwB) as the fraction intersection / union
keywordSimilarity(kwA, kwB) ==
  IF Len(kwA) = 0 \/ Len(kwB) = 0 THEN [n |-> 0, d |-> 1]
  ELSE LET setA == Range(kwA)
           setB == Range(kwB)
           intersection == Cardinality(setA \cap setB)
           union == Cardinality(setA \cup setB)
       IN IF union = 0 THEN [n |-> 0, d |-> 1] ELSE [n |-> intersection, d |-> union]

(***************************************************************************)
(* Fractions and optional values                                           *)
(***************************************************************************)
Frac(n, d) == [n |-> n, d |-> d]

RECURSIVE GCD(_, _)
GCD(a, b) == IF b = 0 THEN a ELSE GCD(b, a % b)

\* the same number in lowest terms, d > 0
Reduce(n, d) ==
  LET g == GCD(IF n < 0 THEN -n ELSE n, d)
  IN IF n = 0 THEN Frac(0, 1) ELSE Frac(n \div g, d \div g)

FracAdd(a, b) == Reduce(a.n * b.d + b.n * a.d, a.d * b.d)

FracLess(a, b) == a.n * b.d < b.n * a.d

FracEq(a, b) == a.n * b.d = b.n * a.d

Abs(x) == IF x < 0 THEN -x ELSE x

Min(a, b) == IF a < b THEN a ELSE b

None == <<>>

Some(v) == <<v>>

\* Array.prototype.slice(0, k)
slice0(s, k) == SubSeq(s, 1, Min(k, Len(s)))

\* Array.prototype.slice(i, j), 0-based, i <= Len(s)
slice(s, i, j) == SubSeq(s, i + 1, Min(j, Len(s)))

\* r.f || '' for a string field
TextOf(r, f) == IF f \in DOMAIN r THEN r[f] ELSE <<>>

\* r.f for a field that may be null
FieldOf(r, f) == IF f \in DOMAIN r THEN Some(r[f]) ELSE None

\* (kwSim * 100).toFixed(0)
Percent(kwSim) == (200 * kwSim.n + kwSim.d) \div (2 * kwSim.d)

\* computeRelatedness with the price distance taken as a fraction of 50
computeRelatednessHalfRange(target, candidate) ==
  LET sameEvent == /\ TextOf(target, "event_ticker") # <<>>
                   /\ FieldOf(target, "event_ticker") = FieldOf(candidate, "event_ticker")
      pTarget == FieldOf(target, "last_price")
      pCand == FieldOf(candidate, "last_price")
      Scored(kwSim, s1) ==
        LET Priced(s2) ==
              IF pTarget # None /\ pCand # None
              THEN FracAdd(s2, Frac(50 - Abs(pTarget[1] - pCand[1]), 500))
              ELSE s2
        IN [score |-> Priced(IF kwSim.n > 0 THEN FracAdd(s1, Frac(kwSim.n * 6, kwSim.d * 10)) ELSE s1),
            reason |-> IF sameEvent THEN [kind |-> "SAME EVENT"]
                       ELSE IF kwSim.n > 0 THEN [kind |-> "TOPIC", pct |-> Percent(kwSim)]
                       ELSE [kind |-> ""]]
  IN Scored(keywordSimilarity(
              extractKeywords(TextOf(target, "title") \o <<" ">> \o TextOf(target, "event_title")),
              extractKeywords(TextOf(candidate, "title") \o <<" ">> \o TextOf(candidate, "event_title"))),
            IF sameEvent THEN Frac(8, 10) ELSE Frac(0, 1))

\* computeRelatedness with the topic reason assigned whenever keywords overlap
computeRelatednessTopicLast(target, candidate) ==
  LET sameEvent == /\ TextOf(target, "event_ticker") # <<>>
                   /\ FieldOf(target, "event_ticker") = FieldOf(candidate, "event_ticker")
      pTarget == FieldOf(target, "last_price")
      pCand == FieldOf(candidate, "last_price")
      Scored(kwSim, s1) ==
        LET Priced(s2) ==
              IF pTarget # None /\ pCand # None
              THEN FracAdd(s2, Frac(100 - Abs(pTarget[1] - pCand[1]), 1000))
              ELSE s2
        IN [score |-> Priced(IF kwSim.n > 0 THEN FracAdd(s1, Frac(kwSim.n * 6, kwSim.d * 10)) ELSE s1),
            reason |-> IF kwSim.n > 0 THEN [kind |-> "TOPIC", pct |-> Percent(kwSim)]
                       ELSE IF sameEvent THEN [kind |-> "SAME EVENT"]
                       ELSE [kind |-> ""]]
  IN Scored(keywordSimilarity(
              extractKeywords(TextOf(target, "title") \o <<" ">> \o TextOf(target, "event_title")),
              extractKeywords(TextOf(candidate, "title") \o <<" ">> \o TextOf(candidate, "event_title"))),
            IF sameEvent THEN Frac(8, 10) ELSE Frac(0, 1))

\* computeRelatedness(target, candidate): { score, reason }
computeRelatedness(target, candidate) ==
  LET sameEvent == /\ TextOf(target, "event_ticker") # <<>>
                   /\ FieldOf(target, "event_ticker") = FieldOf(candidate, "event_ticker")
      pTarget == FieldOf(target, "last_price")
      pCand == FieldOf(candidate, "last_price")
      Scored(kwSim, s1) ==
        LET Priced(s2) ==
              IF pTarget # None /\ pCand # None
              THEN FracAdd(s2, Frac(100 - Abs(pTarget[1] - pCand[1]), 1000))
              ELSE s2
        IN [score |-> Priced(IF kwSim.n > 0 THEN FracAdd(s1, Frac(kwSim.n * 6, kwSim.d * 10)) ELSE s1),
            reason |-> IF sameEvent THEN [kind |-> "SAME EVENT"]
                       ELSE IF kwSim.n > 0 THEN [kind |-> "TOPIC", pct |-> Percent(kwSim)]
                       ELSE [kind |-> ""]]
  IN Scored(keywordSimilarity(
              extractKeywords(TextOf(target, "title") \o <<" ">> \o TextOf(target, "event_title")),
              extractKeywords(TextOf(candidate, "title") \o <<" ">> \o TextOf(candidate, "event_title"))),
            IF sameEvent THEN Frac(8, 10) ELSE Frac(0, 1))

\* { ...m, score, reason }
WithFields(m, extra) ==
  [f \in DOMAIN m \cup DOMAIN extra |-> IF f \in DOMAIN extra THEN extra[f] ELSE m[f]]

\* Array.prototype.sort((a, b) => b.score - a.score): stable, descending
\* x goes before the first entry with a lower score, after its equals
InsertByScore(x, sorted) ==
  LET Lower(i) == FracLess(sorted[i].score, x.score)
      At(k) == SubSeq(sorted, 1, k - 1) \o <<x>> \o SubSeq(sorted, k, Len(sorted))
  IN IF \E i \in 1..Len(sorted) : Lower(i)
     THEN At(CHOOSE i \in 1..Len(sorted) : Lower(i) /\ \A j \in 1..(i - 1) : ~Lower(j))
     ELSE At(Len(sorted) + 1)

\* the entries of s inserted into sorted from the first to the last, a run
\* of several entries as two runs of half the length
RECURSIVE InsertAll(_, _)
InsertAll(sorted, s) ==
  IF sorted = <<>> /\ Len(s) <= 1 THEN s
  ELSE IF Len(s) = 0 THEN sorted
  ELSE IF Len(s) = 1 THEN InsertByScore(s[1], sorted)
  ELSE InsertAll(InsertAll(sorted, SubSeq(s, 1, Len(s) \div 2)),
                 SubSeq(s, Len(s) \div 2 + 1, Len(s)))

SortByScore(s) == InsertAll(<<>>, s)

(***************************************************************************)
(* api/stats.js                                                            *)
(***************************************************************************)
RECURSIVE Sum(_)
Sum(s) == IF s = <<>> THEN 0 ELSE Head(s) + Sum(Tail(s))

\* Math.round(x * scale) / scale for the fraction x, as a fraction over scale
RoundTo(x, scale) == Frac((2 * x.n * scale + x.d) \div (2 * x.d), scale)

(***************************************************************************)
(* JavaScript numbers in the correlation arithmetic: IEEE 754 binary64     *)
(* with round-to-nearest-even.  A natural number beyond 32 bits is the     *)
(* sequence of its limbs below LimbBase, lowest first, without a leading   *)
(* zero limb.  A double is [neg, m, e] with the value (-1)^neg * m * 2^e,   *)
(* where m is zero or has exactly 53 bits; subnormals, infinities and NaN  *)
(* are out of the range of the values computed here, and -0 counts as 0.   *)
(***************************************************************************)
LimbBits == 15

LimbBase == 2^LimbBits

RECURSIVE NatOf(_)
NatOf(i) == IF i = 0 THEN <<>> ELSE <<i % LimbBase>> \o NatOf(i \div LimbBase)

RECURSIVE NatTrim(_)
NatTrim(a) == IF a # <<>> /\ a[Len(a)] = 0 THEN NatTrim(SubSeq(a, 1, Len(a) - 1)) ELSE a

RECURSIVE NatAddC(_, _, _)
NatAddC(a, b, c) ==
  LET Digit(s, ta, tb) == <<s % LimbBase>> \o NatAddC(ta, tb, s \div LimbBase)
  IN IF a = <<>> /\ b = <<>> THEN (IF c = 0 THEN <<>> ELSE <<c>>)
     ELSE IF a = <<>> THEN Digit(Head(b) + c, a, Tail(b))
     ELSE IF b = <<>> THEN Digit(Head(a) + c, Tail(a), b)
     ELSE Digit(Head(a) + Head(b) + c, Tail(a), Tail(b))

NatAdd(a, b) == NatAddC(a, b, 0)

RECURSIVE NatSubB(_, _, _)
NatSubB(a, b, w) ==
  LET Digit(s, tb) == <<s % LimbBase>> \o NatSubB(Tail(a), tb, IF s < LimbBase THEN 1 ELSE 0)
  IN IF a = <<>> THEN <<>>
     ELSE IF b = <<>> THEN Digit(LimbBase + Head(a) - w, b)
     ELSE Digit(LimbBase + Head(a) - Head(b) - w, Tail(b))

\* a - b for a >= b
NatSub(a, b) == NatTrim(NatSubB(a, b, 0))

NatLess(a, b) ==
  IF Len(a) # Len(b) THEN Len(a) < Len(b)
  ELSE \E i \in 1..Len(a) : a[i] < b[i] /\ \A j \in (i + 1)..Len(a) : a[j] = b[j]

RECURSIVE NatMulSmall(_, _, _)
NatMulSmall(a, k, c) ==
  LET Digit(s) == <<s % LimbBase>> \o NatMulSmall(Tail(a), k, s \div LimbBase)
  IN IF a = <<>> THEN (IF c = 0 THEN <<>> ELSE <<c>>)
     ELSE Digit(Head(a) * k + c)

RECURSIVE NatMulRaw(_, _)
NatMulRaw(a, b) ==
  IF b = <<>> THEN <<>>
  ELSE NatAddC(NatMulSmall(a, Head(b), 0), <<0>> \o NatMulRaw(a, Tail(b)), 0)

NatMul(a, b) == NatTrim(NatMulRaw(a, b))

NatShiftL(a, k) ==
  IF a = <<>> THEN <<>>
  ELSE [i \in 1..(k \div LimbBits) |-> 0] \o NatMulSmall(a, 2^(k % LimbBits), 0)

NatShiftR(a, k) ==
  LET Low(x, r) ==
        NatTrim([i \in 1..Len(x) |->
                   (x[i] \div 2^r) + (IF i < Len(x) THEN (x[i + 1] % 2^r) * 2^(LimbBits - r) ELSE 0)])
  IN Low(SubSeq(a, (k \div LimbBits) + 1, Len(a)), k % LimbBits)

NatBitLen(a) ==
  IF a = <<>> THEN 0
  ELSE LimbBits * (Len(a) - 1) + (CHOOSE k \in 1..LimbBits : 2^(k - 1) <= a[Len(a)] /\ a[Len(a)] < 2^k)

NatOdd(a) == a # <<>> /\ a[1] % 2 = 1

DZero == [neg |-> FALSE, m |-> <<>>, e |-> 0]

\* the double nearest to (-1)^neg * (M + f) * 2^E, where 0 < f < 1 when
\* sticky and f = 0 otherwise; ties go to the even mantissa
DRound(neg, M, E, sticky) ==
  LET Norm(q, e) == IF NatBitLen(q) > 53 THEN [neg |-> neg, m |-> NatShiftR(q, 1), e |-> e + 1]
                    ELSE [neg |-> neg, m |-> q, e |-> e]
      Up(q, r, half) == NatLess(half, r) \/ (r = half /\ (sticky \/ NatOdd(q)))
      Cut(d, q) == Norm(IF Up(q, NatSub(M, NatShiftL(q, d)), NatShiftL(<<1>>, d - 1))
                        THEN NatAdd(q, <<1>>) ELSE q,
                        E + d)
      Of(len) == IF len = 0 THEN DZero
                 ELSE IF len <= 53 THEN [neg |-> neg, m |-> NatShiftL(M, 53 - len), e |-> E - (53 - len)]
                 ELSE Cut(len - 53, NatShiftR(M, len - 53))
  IN Of(NatBitLen(M))

DFromInt(i) == DRound(i < 0, NatOf(IF i < 0 THEN -i ELSE i), 0, FALSE)

DNeg(x) == IF x.m = <<>> THEN x ELSE [x EXCEPT !.neg = ~x.neg]

\* x + y
DAdd(x, y) ==
  LET Signed(A, B, e) ==
        IF x.neg = y.neg THEN DRound(x.neg, NatAdd(A, B), e, FALSE)
        ELSE IF NatLess(A, B) THEN DRound(y.neg, NatSub(B, A), e, FALSE)
        ELSE DRound(x.neg, NatSub(A, B), e, FALSE)
      Far(big, small) ==
        DRound(big.neg,
               IF big.neg = small.neg THEN NatShiftL(big.m, 2) ELSE NatSub(NatShiftL(big.m, 2), <<1>>),
               big.e - 2, TRUE)
  IN IF x.m = <<>> THEN y
     ELSE IF y.m = <<>> THEN x
     ELSE IF x.e - y.e > 64 THEN Far(x, y)
     ELSE IF y.e - x.e > 64 THEN Far(y, x)
     ELSE IF x.e >= y.e THEN Signed(NatShiftL(x.m, x.e - y.e), y.m, y.e)
     ELSE Signed(x.m, NatShiftL(y.m, y.e - x.e), x.e)

\* x - y
DSub(x, y) == DAdd(x, DNeg(y))

\* x * y
DMul(x, y) ==
  IF x.m = <<>> \/ y.m = <<>> THEN DZero
  ELSE DRound(x.neg # y.neg, NatMul(x.m, y.m), x.e + y.e, FALSE)

\* k more quotient bits of st.r / d, for st.r < d and k > 0: one bit by a
\* step of the long division, more bits as two runs of half the length
RECURSIVE DivSteps(_, _, _)
DivSteps(st, d, k) ==
  LET Step(r2) == IF NatLess(r2, d) THEN [q |-> NatAdd(st.q, st.q), r |-> r2]
                  ELSE [q |-> NatAdd(NatAdd(st.q, st.q), <<1>>), r |-> NatSub(r2, d)]
  IN IF st.r = <<>> THEN [q |-> NatShiftL(st.q, k), r |-> <<>>]
     ELSE IF k = 1 THEN Step(NatAdd(st.r, st.r))
     ELSE DivSteps(DivSteps(st, d, k \div 2), d, k - k \div 2)

\* x / y for y # 0
DDiv(x, y) ==
  LET Of(qr) == DRound(x.neg # y.neg, qr.q, x.e - y.e - 56, qr.r # <<>>)
  IN IF x.m = <<>> THEN DZero
     ELSE Of(IF NatLess(x.m, y.m) THEN DivSteps([q |-> <<>>, r |-> x.m], y.m, 56)
             ELSE DivSteps([q |-> <<1>>, r |-> NatSub(x.m, y.m)], y.m, 56))

\* the integer square root of N: st.r holds the bits above bit st.k - 1, and
\* cnt > 0 more bits are decided, one by trial, more as two runs of half the
\* length
RECURSIVE SqrtSteps(_, _, _)
SqrtSteps(N, st, cnt) ==
  LET Try(c) == IF NatLess(N, NatMul(c, c)) THEN [r |-> st.r, k |-> st.k - 1]
                ELSE [r |-> c, k |-> st.k - 1]
  IN IF st.k = 0 THEN st
     ELSE IF cnt = 1 THEN Try(NatAdd(st.r, NatShiftL(<<1>>, st.k - 1)))
     ELSE SqrtSteps(N, SqrtSteps(N, st, cnt \div 2), cnt - cnt \div 2)

\* Math.sqrt(x) for x >= 0
DSqrt(x) ==
  LET Rooted(N, r, e) == DRound(FALSE, r, e, NatMul(r, r) # N)
      Of(N, e) == Rooted(N, SqrtSteps(N, [r |-> <<>>, k |-> 56], 56).r, e)
  IN IF x.m = <<>> THEN DZero
     ELSE IF (x.e + 4096) % 2 = 0 THEN Of(NatShiftL(x.m, 56), (x.e - 56) \div 2)
     ELSE Of(NatShiftL(x.m, 57), (x.e - 57) \div 2)

\* x < y
DLess(x, y) ==
  LET MagLess(a, b) == IF a.m = <<>> THEN b.m # <<>>
                       ELSE b.m # <<>> /\ (a.e < b.e \/ (a.e = b.e /\ NatLess(a.m, b.m)))
  IN IF x.neg /\ ~y.neg THEN TRUE
     ELSE IF ~x.neg /\ y.neg THEN FALSE
     ELSE IF x.neg THEN MagLess(y, x)
     ELSE MagLess(x, y)

Doubles(s) == [i \in 1..Len(s) |-> DFromInt(s[i])]

\* a.reduce((s, v) => s + v, 0)
RECURSIVE DSum(_)
DSum(s) == IF s = <<>> THEN DZero ELSE DAdd(DSum(SubSeq(s, 1, Len(s) - 1)), s[Len(s)])

\* Math.abs(x)
DAbs(x) == [x EXCEPT !.neg = FALSE]

\* the natural number a as an integer, for a below 2^30
NatToInt(a) == IF a = <<>> THEN 0 ELSE a[1] + (IF Len(a) > 1 THEN a[2] * LimbBase ELSE 0)

\* Math.round(x) for |x| < 2^29: the integer nearest to x, a tie going up
MathRound(x) ==
  LET Split(k, q) ==
        LET rem == NatSub(x.m, NatShiftL(q, k))
            half == NatShiftL(<<1>>, k - 1)
        IN IF x.neg
           THEN -(NatToInt(q) + (IF NatLess(half, rem) THEN 1 ELSE 0))
           ELSE NatToInt(q) + (IF NatLess(rem, half) THEN 0 ELSE 1)
  IN IF x.m = <<>> THEN 0
     ELSE IF x.e >= 0 THEN (IF x.neg THEN -1 ELSE 1) * NatToInt(NatShiftL(x.m, x.e))
     ELSE Split(-x.e, NatShiftR(x.m, -x.e))

\* Math.round(x * scale) / scale, as the fraction of the rounded integer
\* over scale
DRoundTo(x, scale) == Frac(MathRound(DMul(x, DFromInt(scale))), scale)

\* pearsonCorrelation(seriesA, seriesB) for two sequences of doubles: None
\* for null, else the double returned
pearsonCorrelation(seriesA, seriesB) ==
  LET n == Min(Len(seriesA), Len(seriesB))
      Centred(a, mean) == [i \in 1..n |-> DSub(a[i], mean)]
      Products(x, y) == DSum([i \in 1..n |-> DMul(x[i], y[i])])
      Quotient(num, denom) == IF denom = DZero THEN DZero ELSE DDiv(num, denom)
      Result(da, db) ==
        Some(Quotient(Products(da, db), DSqrt(DMul(Products(da, da), Products(db, db)))))
      Of(a, b) == Result(Centred(a, DDiv(DSum(a), DFromInt(n))), Centred(b, DDiv(DSum(b), DFromInt(n))))
  IN IF n < 10 THEN None ELSE Of(slice0(seriesA, n), slice0(seriesB, n))

SeqMin(s) == CHOOSE v \in Range(s) : \A w \in Range(s) : v <= w

SeqMax(s) == CHOOSE v \in Range(s) : \A w \in Range(s) : w <= v

\* normalizeSeries without the branch for range === 0, the quotient 0 / 0
\* taken as 0
normalizeSeriesNoFlatBranch(prices) ==
  IF Len(prices) = 0 THEN <<>>
  ELSE LET min == SeqMin(prices)
           range == SeqMax(prices) - min
       IN [i \in 1..Len(prices) |-> Frac((prices[i] - min) * 100, IF range = 0 THEN 1 ELSE range)]

\* normalizeSeries(prices)
normalizeSeries(prices) ==
  IF Len(prices) = 0 THEN <<>>
  ELSE LET min == SeqMin(prices)
           range == SeqMax(prices) - min
       IN IF range = 0 THEN [i \in 1..Len(prices) |-> Frac(50, 1)]
          ELSE [i \in 1..Len(prices) |-> Frac((prices[i] - min) * 100, range)]

\* t.yes_price ?? t.price ?? 0
PriceOf(t) == IF "yes_price" \in DOMAIN t THEN t.yes_price
              ELSE IF "price" \in DOMAIN t THEN t.price
              ELSE 0

Prices(trades) == [i \in 1..Len(trades) |-> PriceOf(trades[i])]

\* orderbook.yes || [] and orderbook.no || []
Levels(orderbook, side) == IF side \in DOMAIN orderbook THEN orderbook[side] ELSE <<>>

\* computeSpread with the best no bid itself taken as the ask
computeSpreadAskIsNoBid(orderbook) ==
  IF orderbook = None THEN None
  ELSE LET yesBids == Levels(orderbook[1], "yes")
           noBids == Levels(orderbook[1], "no")
           depth == Len(yesBids) + Len(noBids)
           Quoted(bestBid, bestAsk, spread, sum) ==
             Some([spread |-> Some(spread),
                   spreadPct |-> Some(IF sum > 0 THEN Frac(spread * 200, sum) ELSE Frac(0, 1)),
                   bestBid |-> Some(bestBid), bestAsk |-> Some(bestAsk),
                   midpoint |-> Some(Frac(sum, 2)), depth |-> depth])
       IN IF Len(yesBids) = 0 \/ Len(noBids) = 0
          THEN Some([spread |-> None, spreadPct |-> None,
                     bestBid |-> IF Len(yesBids) > 0 THEN Some(yesBids[1][1]) ELSE None,
                     bestAsk |-> IF Len(noBids) > 0 THEN Some(noBids[1][1]) ELSE None,
                     midpoint |-> None, depth |-> depth])
          ELSE Quoted(yesBids[1][1], noBids[1][1],
                      noBids[1][1] - yesBids[1][1], yesBids[1][1] + noBids[1][1])

\* computeSpread(orderbook); orderbook is None or Some(book)
computeSpread(orderbook) ==
  IF orderbook = None THEN None
  ELSE LET yesBids == Levels(orderbook[1], "yes")
           noBids == Levels(orderbook[1], "no")
           depth == Len(yesBids) + Len(noBids)
           Quoted(bestBid, bestAsk, spread, sum) ==
             Some([spread |-> Some(spread),
                   spreadPct |-> Some(IF sum > 0 THEN Frac(spread * 200, sum) ELSE Frac(0, 1)),
                   bestBid |-> Some(bestBid), bestAsk |-> Some(bestAsk),
                   midpoint |-> Some(Frac(sum, 2)), depth |-> depth])
       IN IF Len(yesBids) = 0 \/ Len(noBids) = 0
          THEN Some([spread |-> None, spreadPct |-> None,
                     bestBid |-> IF Len(yesBids) > 0 THEN Some(yesBids[1][1]) ELSE None,
                     bestAsk |-> IF Len(noBids) > 0 THEN Some(100 - noBids[1][1]) ELSE None,
                     midpoint |-> None, depth |-> depth])
          ELSE Quoted(yesBids[1][1], 100 - noBids[1][1],
                      100 - noBids[1][1] - yesBids[1][1], yesBids[1][1] + 100 - noBids[1][1])

\* the least-squares slope of prices against the index 0..n-1: the sums
\* are integers, the quotient a double
Slope(prices) ==
  LET n == Len(prices)
      Of(sumX, sumY, sumXY, sumX2) ==
        DDiv(DFromInt(n * sumXY - sumX * sumY), DFromInt(n * sumX2 - sumX * sumX))
  IN Of(Sum([i \in 1..n |-> i - 1]), Sum(prices),
        Sum([i \in 1..n |-> (i - 1) * prices[i]]), Sum([i \in 1..n |-> (i - 1) * (i - 1)]))

\* computeMomentum with half = Math.ceil(prices.length / 2)
computeMomentumLongRecentHalf(trades) ==
  LET Mean(half) == DDiv(DFromInt(Sum(half)), DFromInt(Len(half)))
      Moved(recentAvg, olderAvg, slope) ==
        Some([direction |-> IF DLess(DFromInt(1), DSub(recentAvg, olderAvg)) THEN "UP"
                            ELSE IF DLess(DFromInt(1), DSub(olderAvg, recentAvg)) THEN "DOWN"
                            ELSE "FLAT",
              magnitude |-> DRoundTo(DAbs(DSub(recentAvg, olderAvg)), 10),
              recentAvg |-> DRoundTo(recentAvg, 10),
              olderAvg |-> DRoundTo(olderAvg, 10),
              tradeCount |-> Len(trades),
              velocity |-> DRoundTo(slope, 100)])
      OfPrices(prices, half) ==
        Moved(Mean(slice0(prices, half)), Mean(SubSeq(prices, half + 1, Len(prices))), Slope(prices))
  IN IF Len(trades) < 4 THEN None
     ELSE OfPrices(Prices(trades), (Len(trades) + 1) \div 2)

\* computeMomentum(trades); trades is an array.  The averages and their
\* difference are doubles
computeMomentum(trades) ==
  LET Mean(half) == DDiv(DFromInt(Sum(half)), DFromInt(Len(half)))
      Moved(recentAvg, olderAvg, slope) ==
        Some([direction |-> IF DLess(DFromInt(1), DSub(recentAvg, olderAvg)) THEN "UP"
                            ELSE IF DLess(DFromInt(1), DSub(olderAvg, recentAvg)) THEN "DOWN"
                            ELSE "FLAT",
              magnitude |-> DRoundTo(DAbs(DSub(recentAvg, olderAvg)), 10),
              recentAvg |-> DRoundTo(recentAvg, 10),
              olderAvg |-> DRoundTo(olderAvg, 10),
              tradeCount |-> Len(trades),
              velocity |-> DRoundTo(slope, 100)])
      OfPrices(prices, half) ==
        Moved(Mean(slice0(prices, half)), Mean(SubSeq(prices, half + 1, Len(prices))), Slope(prices))
  IN IF Len(trades) < 4 THEN None
     ELSE OfPrices(Prices(trades), Len(trades) \div 2)

\* detectArbitrage(eventMarkets); eventMarkets is an array
HasPrice(m) == "last_price" \in DOMAIN m /\ m.last_price > 0

\* detectArbitrage flagging an overround of 15 already
detectArbitrageFlagAtFifteen(eventMarkets) ==
  LET Of(marketCount, totalImpliedPct) ==
        Some([totalImpliedPct |-> RoundTo(Frac(totalImpliedPct, 1), 10),
              overround |-> RoundTo(Frac(totalImpliedPct - 100, 1), 10),
              marketCount |-> marketCount,
              isMispriced |-> Abs(totalImpliedPct - 100) > 14])
      Priced(marketsWithPrice) ==
        IF Len(marketsWithPrice) < 2 THEN None
        ELSE Of(Len(marketsWithPrice),
                Sum([i \in 1..Len(marketsWithPrice) |-> marketsWithPrice[i].last_price]))
  IN IF Len(eventMarkets) < 2 THEN None
     ELSE Priced(SelectSeq(eventMarkets, HasPrice))

\* detectArbitrage(eventMarkets)
detectArbitrage(eventMarkets) ==
  LET Of(marketCount, totalImpliedPct) ==
        Some([totalImpliedPct |-> RoundTo(Frac(totalImpliedPct, 1), 10),
              overround |-> RoundTo(Frac(totalImpliedPct - 100, 1), 10),
              marketCount |-> marketCount,
              isMispriced |-> Abs(totalImpliedPct - 100) > 15])
      Priced(marketsWithPrice) ==
        IF Len(marketsWithPrice) < 2 THEN None
        ELSE Of(Len(marketsWithPrice),
                Sum([i \in 1..Len(marketsWithPrice) |-> marketsWithPrice[i].last_price]))
  IN IF Len(eventMarkets) < 2 THEN None
     ELSE Priced(SelectSeq(eventMarkets, HasPrice))

\* Delta3 with the older window prices.slice(1, 4)
Delta3OlderFromSecond(prices) ==
  DSub(DDiv(DFromInt(Sum(slice0(prices, 3))), DFromInt(3)),
       DDiv(DFromInt(Sum(SubSeq(prices, 2, Min(4, Len(prices))))), DFromInt(3)))

\* Delta3 with the older window prices.slice(3, 6)
Delta3NextThree(prices) ==
  DSub(DDiv(DFromInt(Sum(slice0(prices, 3))), DFromInt(3)),
       DDiv(DFromInt(Sum(SubSeq(prices, 4, Min(6, Len(prices))))), DFromInt(3)))

\* the mean of the first three prices minus the mean of the last three, each
\* mean a double
Delta3(prices) ==
  DSub(DDiv(DFromInt(Sum(slice0(prices, 3))), DFromInt(3)),
       DDiv(DFromInt(Sum(SubSeq(prices, Len(prices) - 2, Len(prices)))), DFromInt(3)))

\* the object computeDivergence returns for the two deltas
DivergenceOfDeltas(tDelta, cDelta) ==
  LET Up(d) == DLess(DFromInt(1), d)
      Down(d) == DLess(d, DFromInt(-1))
  IN Some([divergence |-> DRoundTo(DAbs(DSub(tDelta, cDelta)), 10),
           direction |->
             IF Up(tDelta) /\ Down(cDelta) THEN "TARGET UP / MATCH DOWN"
             ELSE IF Down(tDelta) /\ Up(cDelta) THEN "TARGET DOWN / MATCH UP"
             ELSE IF Up(tDelta) /\ Up(cDelta) /\ DLess(DFromInt(3), DAbs(DSub(tDelta, cDelta)))
               THEN "BOTH UP (DIVERGING)"
             ELSE IF Down(tDelta) /\ Down(cDelta) /\ DLess(DFromInt(3), DAbs(DSub(tDelta, cDelta)))
               THEN "BOTH DOWN (DIVERGING)"
             ELSE "NEUTRAL",
           targetDelta |-> DRoundTo(tDelta, 10),
           candidateDelta |-> DRoundTo(cDelta, 10)])

\* computeDivergence(targetTrades, candidateTrades); both are arrays
computeDivergence(targetTrades, candidateTrades) ==
  IF Len(targetTrades) < 3 \/ Len(candidateTrades) < 3 THEN None
  ELSE DivergenceOfDeltas(Delta3(Prices(targetTrades)), Delta3(Prices(candidateTrades)))

(***************************************************************************)
(* The upstream API: what the fetch functions of api/kalshi.js return.     *)
(* Event pages are addressed by cursor; the trades and the order book of   *)
(* a market are fixed per ticker.                                          *)
(***************************************************************************)
MaxUpstreamPages == 6

MaxScans == 2

TwoDigits(i) == <<DigitChars[(i \div 10) + 1], DigitChars[(i % 10) + 1]>>

\* the cursor upstream returns for page k, and the page a cursor names
PageCursor(k) == <<"p">> \o TwoDigits(k)

PageOf(cursor) == IF cursor = None \/ cursor = Some(<<>>) THEN 1
                  ELSE (IndexOf(cursor[1][2], DigitChars) - 1) * 10 + IndexOf(cursor[1][3], DigitChars) - 1

\* a trade list as upstream delivers it: newest first, each trade with the
\* time it was made
Yes(ps) == [i \in 1..Len(ps) |-> [yes_price |-> ps[i], created_time |-> Len(ps) + 1 - i]]

\* a small upstream: two event pages with markets, then pages without events
SmallListing == <<
  [page |-> 1, event |-> 1,
   market |-> [ticker |-> <<"K", "X", "F", "E", "D", "-", "1">>, title |-> <<"F", "e", "d", " ", "r", "a", "i", "s", "e", "s", " ", "r", "a", "t", "e", "s">>, last_price |-> 70, volume |-> 500],
   trades |-> Some(Yes(<<70, 68, 65, 60, 55, 50>>)),
   orderbook |-> Some([yes |-> <<<<45, 100>>>>, no |-> <<<<40, 50>>>>])],
  [page |-> 1, event |-> 1,
   market |-> [ticker |-> <<"K", "X", "F", "E", "D", "-", "2">>, title |-> <<"F", "e", "d", " ", "c", "u", "t", "s", " ", "r", "a", "t", "e", "s">>, last_price |-> 50, volume |-> 900],
   trades |-> Some(<<[yes_price |-> 50, created_time |-> 4], [price |-> 52, created_time |-> 3],
                    [yes_price |-> 54, price |-> 1, created_time |-> 2], [count |-> 3, created_time |-> 1]>>),
   orderbook |-> Some([yes |-> <<<<48, 10>>, <<47, 5>>>>])],
  [page |-> 2, event |-> 2,
   market |-> [ticker |-> <<"K", "X", "P", "O", "P", "E", "-", "1">>, title |-> <<"P", "o", "p", "e", " ", "f", "r", "o", "m", " ", "I", "t", "a", "l", "y">>, last_price |-> 70],
   trades |-> Some(Yes(<<70, 70, 71>>)),
   orderbook |-> None],
  [page |-> 2, event |-> 3,
   market |-> [ticker |-> <<"K", "X", "M", "I", "S", "C">>, title |-> <<"Z", "e", "b", "r", "a">>],
   trades |-> None,
   orderbook |-> Some([yes |-> <<>>, no |-> <<>>])] >>

SmallEvents == <<
  [page |-> 1, event |-> 1, head |-> [event_ticker |-> <<"K", "X", "F", "E", "D">>, title |-> <<"F", "e", "d", " ", "d", "e", "c", "i", "s", "i", "o", "n">>], nested |-> TRUE],
  [page |-> 2, event |-> 2, head |-> [event_ticker |-> <<"K", "X", "P", "O", "P", "E">>, title |-> <<"W", "h", "o", " ", "w", "i", "l", "l", " ", "b", "e", " ", "t", "h", "e", " ", "n", "e", "x", "t", " ", "P", "o", "p", "e", "?">>], nested |-> TRUE],
  [page |-> 2, event |-> 3, head |-> [title |-> <<"M", "i", "s", "c">>], nested |-> TRUE],
  [page |-> 2, event |-> 4, head |-> [event_ticker |-> <<"K", "X", "N", "O", "N", "E">>, title |-> <<"N", "o", " ", "m", "a", "r", "k", "e", "t", "s">>], nested |-> FALSE] >>

\* a large upstream: one event of 34 markets and one of 8
BigRow(i) ==
  [page |-> 1, event |-> 1,
   market |-> LET base == [ticker |-> <<"K", "X", "B", "I", "G", "-">> \o TwoDigits(i),
                           title |-> IF i % 2 = 1 THEN <<"B", "i", "g", " ", "r", "a", "t", "e", " ", "h", "i", "k", "e">> ELSE <<"B", "i", "g", " ", "r", "a", "t", "e">>,
                           volume |-> (i * 13) % 50]
              IN IF i % 5 = 4 THEN base ELSE WithFields(base, [last_price |-> (i * 37) % 100]),
   trades |-> IF i % 7 = 6 THEN None
              ELSE Some(Yes([j \in 1..(IF i % 2 = 1 THEN 2 * (i % 7) + 4 ELSE 2 * ((i + 3) % 7)) |-> 40 + (((i + 1) * j * 7) % 23)])),
   orderbook |-> IF i % 3 = 2 THEN None
                 ELSE IF i % 3 = 1 THEN Some([yes |-> <<<<30 + i, 10>>>>])
                 ELSE Some([yes |-> <<<<30 + i, 10>>, <<29, 5>>>>, no |-> <<<<60 - i, 7>>>>])]

MidRow(i) ==
  [page |-> 2, event |-> 2,
   market |-> [ticker |-> <<"K", "X", "M", "I", "D", "-">> \o TwoDigits(i), title |-> <<"M", "i", "d", " ", "s", "e", "a", "t">>],
   trades |-> Some(Yes([j \in 1..(3 + (i % 4)) |-> 20 + ((i + j * j) % 11)])),
   orderbook |-> Some([yes |-> <<<<20 + i, 1>>>>, no |-> <<<<70, 1>>>>])]

BigListing == [i \in 1..34 |-> BigRow(i - 1)] \o [i \in 1..8 |-> MidRow(i - 1)]

BigEvents == <<
  [page |-> 1, event |-> 1, head |-> [event_ticker |-> <<"K", "X", "B", "I", "G">>, title |-> <<"B", "i", "g", " ", "r", "a", "t", "e">>], nested |-> TRUE],
  [page |-> 2, event |-> 2, head |-> [event_ticker |-> <<"K", "X", "M", "I", "D">>, title |-> <<"M", "i", "d", " ", "t", "e", "r", "m">>], nested |-> TRUE] >>

Catalogs == {"small", "big"}

Listing(catalog) == IF catalog = "small" THEN SmallListing ELSE BigListing

EventHeads(catalog) == IF catalog = "small" THEN SmallEvents ELSE BigEvents

IsOnPage(row, k, e) == row.page = k /\ row.event = e

\* the markets nested in event e of page k
NestedMarkets(catalog, k, e) ==
  LET rows == SelectSeq(Listing(catalog), LAMBDA r : IsOnPage(r, k, e))
  IN [i \in 1..Len(rows) |-> rows[i].market]

\* GET /events: the events of page k, each with its nested markets
EventsPage(catalog, k) ==
  LET heads == SelectSeq(EventHeads(catalog), LAMBDA h : h.page = k)
  IN [i \in 1..Len(heads) |->
        IF heads[i].nested
        THEN WithFields(heads[i].head, [markets |-> NestedMarkets(catalog, k, heads[i].event)])
        ELSE heads[i].head]

\* the response body of fetchEvents for page k; a page past the catalogue
\* carries no events field
EventsBody(catalog, k, next) ==
  LET Body(evts) == IF evts = <<>> THEN [page |-> k] ELSE [page |-> k, events |-> evts]
      Sent(body) == IF next = None THEN body ELSE WithFields(body, [cursor |-> next[1]])
  IN Sent(Body(EventsPage(catalog, k)))

\* GET /markets: the markets of page k
MarketsPage(catalog, k) ==
  LET rows == SelectSeq(Listing(catalog), LAMBDA r : r.page = k)
  IN [i \in 1..Len(rows) |-> rows[i].market]

MarketsBody(catalog, k, next) ==
  LET Body(list) == IF list = <<>> THEN [page |-> k] ELSE [page |-> k, markets |-> list]
      Sent(body) == IF next = None THEN body ELSE WithFields(body, [cursor |-> next[1]])
  IN Sent(Body(MarketsPage(catalog, k)))

\* the cursors upstream may return with page k: the next page, no cursor,
\* or an empty cursor
NextCursors(k) ==
  {None, Some(<<>>)} \cup (IF k < MaxUpstreamPages THEN {Some(PageCursor(k + 1))} ELSE {})

RowOf(catalog, ticker) ==
  LET rows == SelectSeq(Listing(catalog), LAMBDA r : r.market.ticker = ticker)
  IN rows[1]

\* the response body of fetchTrades(ticker) and of fetchOrderbook(ticker)
TradesBody(catalog, ticker) ==
  LET r == RowOf(catalog, ticker)
  IN IF r.trades = None THEN [ticker |-> ticker] ELSE [ticker |-> ticker, trades |-> r.trades[1]]

OrderbookBody(catalog, ticker) ==
  LET r == RowOf(catalog, ticker)
  IN IF r.orderbook = None THEN [ticker |-> ticker] ELSE [ticker |-> ticker, orderbook |-> r.orderbook[1]]

\* which fetchTrades / fetchOrderbook calls reject
FailureWorlds == {
  [trades |-> {}, orderbook |-> {}],
  [trades |-> {<<"K", "X", "F", "E", "D", "-", "1">>, <<"K", "X", "P", "O", "P", "E", "-", "1">>, <<"K", "X", "B", "I", "G", "-", "0", "3">>, <<"K", "X", "B", "I", "G", "-", "3", "0">>, <<"K", "X", "M", "I", "D", "-", "0", "0">>},
   orderbook |-> {<<"K", "X", "F", "E", "D", "-", "2">>, <<"K", "X", "B", "I", "G", "-", "0", "6">>}] }

(***************************************************************************)
(* State                                                                   *)
(***************************************************************************)
VARIABLES
  catalog,    \* which upstream the program talks to
  failing,    \* the fetchTrades / fetchOrderbook calls that reject
  route,      \* the code that runs: "Scanner", "CorrelationChart", "fetchAllOpenMarkets", "MarketDetail", "MarketTable", "analytics"
  mounted,    \* the component of the route is mounted
  inflight,   \* the fetches that have been issued and have not settled
  scanner,    \* the useState values of Scanner
  loadAll,    \* the loadAll routine of Scanner's mount effect
  scans,      \* the runScan invocations that found their reference, in start order
  writer,     \* per Scanner state value: the scan that wrote it last (0: none)
  props,      \* the props of CorrelationChart: ticker, title, eventTicker
  chart,      \* the useState values of CorrelationChart
  computes,   \* the compute routines of CorrelationChart's effect, in start order
  fetchAll,   \* the fetchAllOpenMarkets routine
  lateCalls,  \* the state setters a routine called after its cancelled flag was set
  call,       \* the last call of an analytic function: name, arguments, outcome
  detail,     \* the route parameter and the useState values of MarketDetail
  detailLoads, \* the load invocations of MarketDetail's effects, in start order
  table,      \* the useState values of MarketTable
  tableLoads  \* the loadMarkets invocations of MarketTable, in start order

world == <<catalog, failing, route, call>>

scannerVars == <<scanner, loadAll, scans, writer>>

chartVars == <<props, chart, computes>>

pageVars == <<detail, detailLoads, table, tableLoads>>

vars == <<world, mounted, inflight, scannerVars, chartVars, fetchAll, lateCalls, pageVars>>

(***************************************************************************)
(* Scanner (components/Scanner.jsx)                                        *)
(***************************************************************************)
ScanResultCap == 30

ScanTopCount == 15

BatchWidth == 5

LoadAllPageCap == 5

\* the score a market must exceed to be kept by runScan: 0.01
ScanMinScore == Frac(1, 100)

\* a fetch in flight: who awaits it, which endpoint, the ticker or the cursor
\* asked for, and for a fetch of an enrichment batch the batch start index
\* and the position in the batch
Request(owner, kind, ticker, cursor, i, item) ==
  [owner |-> owner, kind |-> kind, ticker |-> ticker, cursor |-> cursor, i |-> i, item |-> item]

\* data.cursor ?? null: an empty cursor counts as a cursor
CursorOfKeepEmpty(data) == IF "cursor" \in DOMAIN data THEN Some(data.cursor) ELSE None

\* data.cursor || null
CursorOf(data) == IF "cursor" \in DOMAIN data /\ data.cursor # <<>> THEN Some(data.cursor) ELSE None

\* the events of a response after a loop that writes event_title and
\* event_ticker on the nested markets themselves
EventsOfTaggedInPlace(data) ==
  IF "events" \in DOMAIN data
  THEN [e \in 1..Len(data.events) |->
          IF "markets" \in DOMAIN data.events[e]
          THEN [data.events[e] EXCEPT
                  !.markets = [k \in 1..Len(@) |->
                                 WithFields(@[k], [event_title |-> data.events[e].title])]]
          ELSE data.events[e]]
  ELSE <<>>

\* data.events || []
EventsOf(data) == IF "events" \in DOMAIN data THEN data.events ELSE <<>>

\* ev.markets || []
MarketsOf(ev) == IF "markets" \in DOMAIN ev THEN ev.markets ELSE <<>>

\* { ...m, event_title: ev.title, event_ticker: ev.event_ticker }
Tagged(m, ev) ==
  LET dropped == [f \in DOMAIN m \ {"event_title", "event_ticker"} |-> m[f]]
      t == IF "title" \in DOMAIN ev THEN WithFields(dropped, [event_title |-> ev.title]) ELSE dropped
  IN IF "event_ticker" \in DOMAIN ev THEN WithFields(t, [event_ticker |-> ev.event_ticker]) ELSE t

RECURSIVE Flatten(_)
Flatten(evts) ==
  IF evts = <<>> THEN <<>>
  ELSE LET ev == Head(evts)
       IN [i \in 1..Len(MarketsOf(ev)) |-> Tagged(MarketsOf(ev)[i], ev)] \o Flatten(Tail(evts))

\* the arbitrage pass of loadAll over the loaded events
RECURSIVE ArbitrageScan(_)
ArbitrageScan(events) ==
  IF events = <<>> THEN <<>>
  ELSE LET ev == Head(events)
           arb == detectArbitrage(MarketsOf(ev))
       IN (IF arb # None /\ arb[1].isMispriced
           THEN <<WithFields(arb[1], [event |-> ev])>>
           ELSE <<>>) \o ArbitrageScan(Tail(events))

\* findRef(tickerInput) over the allMarkets of the current render
findRef(allMarkets, tickerInput) ==
  LET t == toUpperCase(trim(tickerInput))
      exact == SelectSeq(allMarkets, LAMBDA m : "ticker" \in DOMAIN m /\ m.ticker = t)
      partial == SelectSeq(allMarkets, LAMBDA m : "ticker" \in DOMAIN m /\ includes(m.ticker, t))
  IN IF exact # <<>> THEN Some(exact[1])
     ELSE IF partial # <<>> THEN Some(partial[1])
     ELSE None

\* step 1 of runScan: filter out the reference, score, threshold, sort, cap
ScoreMarket(ref, m) == WithFields(m, computeRelatedness(ref, m))

\* the cap applied before the sort
ScanScoreCapFirst(allMarkets, ref) ==
  LET others == SelectSeq(allMarkets, LAMBDA m : m.ticker # ref.ticker)
      mapped == [i \in 1..Len(others) |-> ScoreMarket(ref, others[i])]
      kept == SelectSeq(mapped, LAMBDA m : FracLess(ScanMinScore, m.score))
  IN SortByScore(slice0(kept, ScanResultCap))

ScanScore(allMarkets, ref) ==
  LET others == SelectSeq(allMarkets, LAMBDA m : m.ticker # ref.ticker)
      mapped == [i \in 1..Len(others) |-> ScoreMarket(ref, others[i])]
      kept == SelectSeq(mapped, LAMBDA m : FracLess(ScanMinScore, m.score))
  IN slice0(SortByScore(kept), ScanResultCap)

\* the trade lists a settled fetchTrades can leave in a scan: the lists
\* upstream serves, and the empty list of a rejected fetch or of a body
\* without trades
ServedTrades ==
  {<<>>} \cup {(SmallListing \o BigListing)[i].trades[1] :
                i \in {j \in 1..Len(SmallListing \o BigListing) :
                         (SmallListing \o BigListing)[j].trades # None}}

\* computeMomentum(trades) of every such list, computed once
MomentumTable == {<<t, computeMomentum(t)>> : t \in ServedTrades}

MomentumOfServed(trades) == (CHOOSE e \in MomentumTable : e[1] = trades)[2]

\* the delta computeDivergence takes of every such list of 3 trades or more
DeltaTable == {<<t, Delta3(Prices(t))>> : t \in {s \in ServedTrades : Len(s) >= 3}}

DeltaOfServed(trades) == (CHOOSE e \in DeltaTable : e[1] = trades)[2]

\* computeDivergence(targetTrades, candidateTrades) of every two such lists
DivergenceTable ==
  {<<t, {<<c, IF Len(t) < 3 \/ Len(c) < 3 THEN None
              ELSE DivergenceOfDeltas(DeltaOfServed(t), DeltaOfServed(c))>> : c \in ServedTrades}>> :
     t \in ServedTrades}

DivergenceOfServed(targetTrades, candidateTrades) ==
  (CHOOSE e \in (CHOOSE row \in DivergenceTable : row[1] = targetTrades)[2] :
     e[1] = candidateTrades)[2]

\* the statistics runScan writes on the entry of one batch result; its
\* trade lists are served lists, so that the values computeMomentum and
\* computeDivergence return are read from the tables
Enrich(entry, refTrades, br) ==
  LET WithSpread(e, spread) ==
        IF spread # None
        THEN WithFields(e, [spread |-> spread[1].spread, spreadPct |-> spread[1].spreadPct,
                            depth |-> spread[1].depth])
        ELSE e
      WithMomentum(e, mom) ==
        IF mom # None
        THEN WithFields(e, [momentumDir |-> mom[1].direction, momentumMag |-> mom[1].magnitude,
                            velocity |-> mom[1].velocity])
        ELSE e
      WithDivergence(e, div) ==
        IF div # None
        THEN WithFields(e, [divergence |-> div[1].divergence, divDirection |-> div[1].direction])
        ELSE e
  IN WithDivergence(WithMomentum(WithSpread(entry, computeSpread(br.orderbook)),
                                 MomentumOfServed(br.trades)),
                    DivergenceOfServed(refTrades, br.trades))

\* scored.find(s => s.ticker === ticker), as an index (0: not found)
FindEntry(scored, ticker) ==
  IF \E k \in 1..Len(scored) : scored[k].ticker = ticker
  THEN CHOOSE k \in 1..Len(scored) :
         scored[k].ticker = ticker /\ \A j \in 1..(k - 1) : scored[j].ticker # ticker
  ELSE 0

\* the loop over batchResults: each result updates its entry in place
\* scored after the result br of one batch item is written on entry k
\* (0: the ticker has no entry)
Updated(scored, refTrades, br, k) ==
  IF k = 0 THEN scored ELSE [scored EXCEPT ![k] = Enrich(scored[k], refTrades, br)]

RECURSIVE ApplyBatch(_, _, _)
ApplyBatch(scored, refTrades, batchResults) ==
  IF batchResults = <<>> THEN scored
  ELSE ApplyBatch(Updated(scored, refTrades, Head(batchResults),
                          FindEntry(scored, Head(batchResults).ticker)),
                  refTrades, Tail(batchResults))

\* MarketDetail and MarketTable before their first render
DetailInitial ==
  [ticker |-> <<>>, effect |-> 0, market |-> None, orderbook |-> None, trades |-> <<>>,
   loading |-> TRUE, error |-> None]

TableInitial ==
  [markets |-> <<>>, pages |-> <<>>, cursor |-> None, loading |-> TRUE, error |-> None]

PagesIdle ==
  detail = DetailInitial /\ detailLoads = <<>> /\ table = TableInitial /\ tableLoads = <<>>

ScannerInitial ==
  [refTicker |-> <<>>, refMarket |-> None, allMarkets |-> <<>>, allEvents |-> <<>>,
   results |-> <<>>, arbitrageResults |-> <<>>, loading |-> FALSE, status |-> [msg |-> ""],
   sortKey |-> "score", sortDir |-> "desc", minScore |-> Frac(0, 100), scanPhase |-> "idle"]

LoadAllIdle ==
  [pc |-> "idle", cancelled |-> FALSE, markets |-> <<>>, events |-> <<>>, cursor |-> None, page |-> 0]

WriterNone == [results |-> 0, status |-> 0, scanPhase |-> 0, refMarket |-> 0, loading |-> 0]

LoadAllOwner == <<"loadAll", 0>>

ScanOwner(s) == <<"runScan", s>>

\* a setState call: React drops the update of an unmounted component
SetScanner(updates) ==
  scanner' = IF mounted THEN WithFields(scanner, updates) ELSE scanner

\* a setState call by scan s
ScanSets(s, updates) ==
  /\ SetScanner(updates)
  /\ writer' = IF mounted
               THEN [f \in DOMAIN writer |-> IF f \in DOMAIN updates THEN s ELSE writer[f]]
               ELSE writer

\* the tail of loadAll after the page loop (lines 75-91)
LoadAllFinish(markets, events) ==
  /\ loadAll' = [LoadAllIdle EXCEPT !.pc = "done", !.cancelled = loadAll.cancelled]
  /\ IF ~loadAll.cancelled
     THEN /\ SetScanner([allMarkets |-> markets, allEvents |-> events,
                         arbitrageResults |-> ArbitrageScan(events), scanPhase |-> "idle",
                         status |-> [msg |-> "Ready", markets |-> Len(markets), events |-> Len(events)]])
          /\ writer' = IF mounted THEN [writer EXCEPT !.status = 0, !.scanPhase = 0] ELSE writer
     ELSE UNCHANGED <<scanner, writer>>

\* loadAll resumes after await fetchEvents(params): the response carries the
\* events of the page asked for and the cursor next, or the fetch rejected
LoadAllEvents(req, next) ==
  /\ req \in inflight
  /\ req.owner = LoadAllOwner
  /\ \E data \in {EventsBody(catalog, PageOf(req.cursor), next)} :
     \E events \in {loadAll.events \o EventsOf(data)} :
     \E markets \in {loadAll.markets \o Flatten(EventsOf(data))} :
     \E cursor \in {CursorOf(data)} :
     \E page \in {loadAll.page + 1} :
       IF cursor = None
       THEN /\ LoadAllFinish(markets, events)
            /\ inflight' = inflight \ {req}
            /\ UNCHANGED lateCalls
       ELSE IF page < LoadAllPageCap /\ ~loadAll.cancelled
       THEN /\ loadAll' = [loadAll EXCEPT !.markets = markets, !.events = events, !.page = page,
                                          !.cursor = cursor]
            /\ SetScanner([status |-> [msg |-> "Loaded", markets |-> Len(markets), events |-> Len(events)]])
            /\ writer' = IF mounted THEN [writer EXCEPT !.status = 0] ELSE writer
            /\ inflight' = (inflight \ {req}) \cup {Request(LoadAllOwner, "events", <<>>, cursor, 0, 0)}
            /\ UNCHANGED lateCalls
       ELSE IF page < LoadAllPageCap
       THEN \* cancelled: setStatus of line 69 has run, then the loop head returns
            /\ loadAll' = [LoadAllIdle EXCEPT !.pc = "returned", !.cancelled = TRUE]
            /\ SetScanner([status |-> [msg |-> "Loaded", markets |-> Len(markets), events |-> Len(events)]])
            /\ lateCalls' = lateCalls \cup {<<"loadAll", "setStatus">>}
            /\ inflight' = inflight \ {req}
            /\ UNCHANGED writer
       ELSE \* the page cap is reached: setStatus of line 69, then the tail
            /\ LoadAllFinish(markets, events)
            /\ lateCalls' = IF loadAll.cancelled THEN lateCalls \cup {<<"loadAll", "setStatus">>}
                            ELSE lateCalls
            /\ inflight' = inflight \ {req}
  /\ UNCHANGED <<world, pageVars, chartVars, fetchAll, mounted, scans>>

\* await fetchEvents(params) rejects: catch { break }, then the tail
LoadAllEventsFail(req) ==
  /\ req \in inflight
  /\ req.owner = LoadAllOwner
  /\ LoadAllFinish(loadAll.markets, loadAll.events)
  /\ inflight' = inflight \ {req}
  /\ UNCHANGED <<world, pageVars, chartVars, fetchAll, mounted, scans, lateCalls>>

\* tRes.trades || [] of a settled fetchTrades, [] when it rejected
TradesResult(ticker) ==
  LET body == TradesBody(catalog, ticker)
  IN IF ticker \in failing.trades THEN <<>>
     ELSE IF "trades" \in DOMAIN body THEN body.trades ELSE <<>>

\* a single try block around both fetches of a batch item: a rejected
\* fetchTrades skips fetchOrderbook
OrderbookResultSharedTry(ticker) ==
  LET body == OrderbookBody(catalog, ticker)
  IN IF ticker \in failing.orderbook \cup failing.trades THEN None
     ELSE IF "orderbook" \in DOMAIN body THEN Some(body.orderbook) ELSE None

\* obRes.orderbook of a settled fetchOrderbook, null when it rejected
OrderbookResult(ticker) ==
  LET body == OrderbookBody(catalog, ticker)
  IN IF ticker \in failing.orderbook THEN None
     ELSE IF "orderbook" \in DOMAIN body THEN Some(body.orderbook) ELSE None

\* const top = scored.slice(0, 15)
TopOf(scored) == slice0(scored, ScanTopCount)

\* a batch one item too wide
BatchAtWide(scored, i) == slice(TopOf(scored), i, i + BatchWidth + 1)

\* top.slice(i, i + 5)
BatchAt(scored, i) == slice(TopOf(scored), i, i + BatchWidth)

\* batch.map(async (m) => ...): every item runs up to its await fetchTrades
BatchOuts(scored, i) == [k \in 1..Len(BatchAt(scored, i)) |-> [ticker |-> BatchAt(scored, i)[k].ticker]]

BatchRequests(s, scored, i) ==
  {Request(ScanOwner(s), "trades", BatchAt(scored, i)[k].ticker, None, i, k) :
     k \in 1..Len(BatchAt(scored, i))}

\* runScan without its finally block
ScanDoneNoFinally(s, scan, extra) ==
  /\ scans' = [scans EXCEPT ![s] = [scan EXCEPT !.pc = "done", !.outs = <<>>]]
  /\ ScanSets(s, WithFields(extra, [scanPhase |-> "done",
                                    status |-> [msg |-> "Scan complete", found |-> Len(scan.scored)]]))

\* the end of runScan: lines 200-201 and the finally block
ScanDone(s, scan, extra) ==
  /\ scans' = [scans EXCEPT ![s] = [scan EXCEPT !.pc = "done", !.outs = <<>>]]
  /\ ScanSets(s, WithFields(extra, [scanPhase |-> "done", loading |-> FALSE,
                                    status |-> [msg |-> "Scan complete", found |-> Len(scan.scored)]]))

\* runScan(), lines 105-139: up to the await of the reference trades
runScan ==
  \E ref \in {findRef(scanner.allMarkets, scanner.refTicker)} :
    IF ref = None
    THEN /\ SetScanner([status |-> [msg |-> "not found", ticker |-> scanner.refTicker]])
         /\ writer' = [writer EXCEPT !.status = 0]
         /\ UNCHANGED <<scans, inflight>>
    ELSE /\ Len(scans) < MaxScans
         /\ \E scored \in {ScanScore(scanner.allMarkets, ref[1])} :
              /\ scans' = Append(scans, [ref |-> ref[1], scored |-> scored, refTrades |-> <<>>,
                                         i |-> 0, outs |-> <<>>, pc |-> "refTrades"])
              /\ ScanSets(Len(scans) + 1,
                          [refMarket |-> ref, loading |-> TRUE, scanPhase |-> "fetching-stats",
                           results |-> scored,
                           status |-> [msg |-> "Fetching trade data and orderbooks..."]])
              /\ inflight' = inflight \cup {Request(ScanOwner(Len(scans) + 1), "trades", ref[1].ticker,
                                                    None, -1, 0)}

\* onChange of the reference input
SetRefTicker(v) ==
  /\ route = "Scanner" /\ mounted
  /\ v # scanner.refTicker
  /\ scanner' = [scanner EXCEPT !.refTicker = v]
  /\ UNCHANGED <<world, pageVars, chartVars, fetchAll, mounted, inflight, loadAll, scans, writer, lateCalls>>

\* handleTickerKey with the Enter key
EnterKey ==
  /\ route = "Scanner" /\ mounted
  /\ runScan
  /\ UNCHANGED <<world, pageVars, chartVars, fetchAll, mounted, loadAll, lateCalls>>

\* onClick of the [SCAN] button, which is disabled while loading, for a
\* blank input and before the universe is loaded
ScanButton ==
  /\ route = "Scanner" /\ mounted
  /\ ~(scanner.loading \/ trim(scanner.refTicker) = <<>> \/ Len(scanner.allMarkets) = 0)
  /\ runScan
  /\ UNCHANGED <<world, pageVars, chartVars, fetchAll, mounted, loadAll, lateCalls>>

\* runScan resumes after await fetchTrades(ref.ticker): lines 140-166 up to
\* the first await of the batch items, or to the end when top is empty
ScanRefTrades(req) ==
  /\ req \in inflight
  /\ req.owner[1] = "runScan" /\ req.i = -1
  /\ LET s == req.owner[2]
         scored == scans[s].scored
     IN IF Len(TopOf(scored)) = 0
        THEN /\ ScanDone(s, [scans[s] EXCEPT !.refTrades = TradesResult(req.ticker)], << >>)
             /\ inflight' = inflight \ {req}
        ELSE /\ scans' = [scans EXCEPT ![s].refTrades = TradesResult(req.ticker), ![s].pc = "batch",
                                       ![s].i = 0, ![s].outs = BatchOuts(scored, 0)]
             /\ inflight' = (inflight \ {req}) \cup BatchRequests(s, scored, 0)
             /\ UNCHANGED <<scanner, writer>>
  /\ UNCHANGED <<world, pageVars, chartVars, fetchAll, mounted, loadAll, lateCalls>>

\* a batch item resumes after await fetchTrades(m.ticker) and awaits
\* fetchOrderbook(m.ticker)
ItemTrades(req) ==
  /\ req \in inflight
  /\ req.owner[1] = "runScan" /\ req.i >= 0 /\ req.kind = "trades"
  /\ LET s == req.owner[2]
     IN scans' = [scans EXCEPT ![s].outs[req.item] = WithFields(@, [trades |-> TradesResult(req.ticker)])]
  /\ inflight' = (inflight \ {req}) \cup {[req EXCEPT !.kind = "orderbook"]}
  /\ UNCHANGED <<world, pageVars, chartVars, fetchAll, mounted, scanner, loadAll, writer, lateCalls>>

\* a batch item resumes after await fetchOrderbook(m.ticker); when it is
\* the last of its batch, Promise.all resolves and runScan runs lines
\* 167-198, then issues the next batch or ends
ItemOrderbook(req) ==
  /\ req \in inflight
  /\ req.owner[1] = "runScan" /\ req.i >= 0 /\ req.kind = "orderbook"
  /\ \E s \in {req.owner[2]} :
     \E outs \in {[scans[s].outs EXCEPT
                     ![req.item] = WithFields(@, [orderbook |-> OrderbookResult(req.ticker)])]} :
       IF \E k \in 1..Len(outs) : "orderbook" \notin DOMAIN outs[k]
       THEN /\ scans' = [scans EXCEPT ![s].outs = outs]
            /\ inflight' = inflight \ {req}
            /\ UNCHANGED <<scanner, writer>>
       ELSE \E scored \in {ApplyBatch(scans[s].scored, scans[s].refTrades, outs)} :
            \E i \in {scans[s].i + BatchWidth} :
            \E top \in {Len(TopOf(scored))} :
              IF i < top
              THEN /\ scans' = [scans EXCEPT ![s].scored = scored, ![s].i = i,
                                             ![s].outs = BatchOuts(scored, i)]
                   /\ ScanSets(s, [results |-> scored,
                                   status |-> [msg |-> "Analyzed", done |-> Min(i, top), of |-> top]])
                   /\ inflight' = (inflight \ {req}) \cup BatchRequests(s, scored, i)
              ELSE /\ ScanDone(s, [scans[s] EXCEPT !.scored = scored], [results |-> scored])
                   /\ inflight' = inflight \ {req}
  /\ UNCHANGED <<world, pageVars, chartVars, fetchAll, mounted, loadAll, lateCalls>>

\* the Scanner is unmounted: the cleanup of the mount effect runs
UnmountScanner ==
  /\ route = "Scanner" /\ mounted
  /\ mounted' = FALSE
  /\ loadAll' = [loadAll EXCEPT !.cancelled = TRUE]
  /\ UNCHANGED <<world, pageVars, chartVars, fetchAll, inflight, scanner, scans, writer, lateCalls>>

(***************************************************************************)
(* CorrelationChart (App.jsx)                                              *)
(***************************************************************************)
MAX_RESULTS == 8

MAX_CHART_LINES == 5

ChartPageCap == 3

ChartBatchWidth == 5

\* the score a market must exceed to be kept by compute: 0.05
ChartMinScore == Frac(5, 100)

ComputeOwner(c) == <<"compute", c>>

ChartInitial ==
  [related |-> <<>>, chartData |-> <<>>, chartKeys |-> <<>>, loading |-> TRUE,
   status |-> [msg |-> "Scanning..."]]

\* the setState calls compute makes before its first await (lines 50-54)
ChartReset ==
  [related |-> <<>>, chartData |-> <<>>, chartKeys |-> <<>>, loading |-> TRUE,
   status |-> [msg |-> "Loading events..."]]

ComputeStart(p) ==
  [props |-> p, cancelled |-> FALSE, pc |-> "events", allMarkets |-> <<>>, page |-> 0,
   topRelated |-> <<>>, targetTrades |-> <<>>, tradeResults |-> <<>>, i |-> 0, outs |-> <<>>]

\* Array.prototype.reverse
Reverse(s) == [i \in 1..Len(s) |-> s[Len(s) + 1 - i]]

\* the nested loops of lines 69-79: every market but the target's own
RECURSIVE FlattenExcept(_, _)
FlattenExcept(evts, ticker) ==
  IF evts = <<>> THEN <<>>
  ELSE LET ev == Head(evts)
           own == SelectSeq(MarketsOf(ev), LAMBDA m : m.ticker # ticker)
       IN [i \in 1..Len(own) |-> Tagged(own[i], ev)] \o FlattenExcept(Tail(evts), ticker)

\* { ticker, title, event_ticker: eventTicker, last_price: null }
TargetInfo(p) ==
  LET base == [ticker |-> p.ticker, title |-> p.title]
  IN IF p.eventTicker = None THEN base ELSE WithFields(base, [event_ticker |-> p.eventTicker[1]])

\* steps 2 and 3 of compute: score, sort, threshold, cap
ChartScore(allMarkets, p) ==
  LET scored == [i \in 1..Len(allMarkets) |-> ScoreMarket(TargetInfo(p), allMarkets[i])]
      sorted == SortByScore(scored)
  IN slice0(SelectSeq(sorted, LAMBDA m : FracLess(ChartMinScore, m.score)), MAX_RESULTS)

ChartCandidates(topRelated) == slice0(topRelated, MAX_CHART_LINES)

ChartBatchAt(topRelated, i) == slice(ChartCandidates(topRelated), i, i + ChartBatchWidth)

ChartBatchOuts(topRelated, i) ==
  [k \in 1..Len(ChartBatchAt(topRelated, i)) |-> [ticker |-> ChartBatchAt(topRelated, i)[k].ticker]]

ChartBatchRequests(c, topRelated, i) ==
  {Request(ComputeOwner(c), "trades", ChartBatchAt(topRelated, i)[k].ticker, None, i, k) :
     k \in 1..Len(ChartBatchAt(topRelated, i))}

\* Math.round((i / len) * (normLength - 1)), capped at normLength - 1
ScaledIdx(i, len, normLength) ==
  Min((2 * i * (normLength - 1) + len) \div (2 * len), normLength - 1)

\* the lines of the chart: the trade results with at least 2 prices
ValidLines(tradeResults) == SelectSeq(tradeResults, LAMBDA tr : Len(tr.trades) >= 2)

\* the priceCorr compute stores for one trade result, None when the overlap
\* is below 10
PriceCorr(targetPrices, prices) ==
  LET minLen == Min(Len(targetPrices), Len(prices))
  IN IF minLen >= 10
     THEN pearsonCorrelation(Doubles(slice0(targetPrices, minLen)), Doubles(slice0(prices, minLen)))
     ELSE None

\* the loop of lines 151-174 over the trade results: relEntry.priceCorr
RECURSIVE ApplyCorr(_, _, _)
ApplyCorr(topRelated, targetPrices, lines) ==
  IF lines = <<>> THEN topRelated
  ELSE LET tr == Head(lines)
           corr == PriceCorr(targetPrices, Prices(tr.trades))
           k == FindEntry(topRelated, tr.ticker)
           next == IF k # 0 /\ corr # None
                   THEN [topRelated EXCEPT ![k] = WithFields(@, [priceCorr |-> corr[1]])]
                   ELSE topRelated
       IN ApplyCorr(next, targetPrices, Tail(lines))

\* step 5 of compute: the data points of the chart, one per target trade
ChartPoints(ticker, targetPrices, lines) ==
  LET targetNorm == normalizeSeries(targetPrices)
      len == Len(targetNorm)
      keys == {ticker} \cup {lines[k].ticker : k \in 1..Len(lines)}
      LineOf(t) == lines[CHOOSE k \in 1..Len(lines) :
                           lines[k].ticker = t /\ \A j \in (k + 1)..Len(lines) : lines[j].ticker # t]
      NormOf(t) == normalizeSeries(Prices(LineOf(t).trades))
  IN [i \in 1..len |->
        [idx |-> i - 1,
         values |-> [t \in keys |->
                       IF t = ticker /\ \A k \in 1..Len(lines) : lines[k].ticker # t
                       THEN targetNorm[i]
                       ELSE NormOf(t)[ScaledIdx(i - 1, len, Len(NormOf(t))) + 1]]]]

\* a setState call of compute c; React drops the update of an unmounted
\* component
ChartSets(c, updates) ==
  /\ chart' = IF mounted THEN WithFields(chart, updates) ELSE chart
  /\ lateCalls' = IF computes[c].cancelled
                  THEN lateCalls \cup {<<"compute", f>> : f \in DOMAIN updates}
                  ELSE lateCalls

\* compute returns without a state update; the finally block updates
\* loading only when not cancelled, which a return after a cancelled check
\* never is
ComputeReturn(c, compute) ==
  /\ computes' = [computes EXCEPT ![c] = [ComputeStart(compute.props) EXCEPT !.pc = "done", !.cancelled = compute.cancelled]]

\* the catch and finally blocks of compute (lines 195-199)
ComputeCatch(c) ==
  /\ ComputeReturn(c, computes[c])
  /\ ChartSets(c, IF computes[c].cancelled THEN [status |-> [msg |-> "Error"]]
                  ELSE [status |-> [msg |-> "Error"], loading |-> FALSE])

\* compute from line 86 to its await of the target's trades (or its return)
ComputeScore(c, compute, allMarkets, req) ==
  \E topRelated \in {ChartScore(allMarkets, compute.props)} :
    IF Len(topRelated) = 0
    THEN /\ ComputeReturn(c, compute)
         /\ ChartSets(c, [related |-> topRelated, status |-> [msg |-> "No related markets found."],
                          loading |-> FALSE])
         /\ inflight' = inflight \ {req}
    ELSE /\ computes' = [computes EXCEPT ![c] = [compute EXCEPT !.pc = "targetTrades",
                                                   !.allMarkets = allMarkets,
                                                   !.topRelated = topRelated]]
         /\ ChartSets(c, [related |-> topRelated,
                          status |-> [msg |-> "Fetching trade data for overlay..."]])
         /\ inflight' = (inflight \ {req})
                          \cup {Request(ComputeOwner(c), "trades", compute.props.ticker, None, -1, 0)}

\* compute resumes after await fetchEvents(params) (lines 67-113)
ComputeEvents(req, next) ==
  /\ req \in inflight
  /\ req.owner[1] = "compute" /\ req.kind = "events"
  /\ \E c \in {req.owner[2]} :
     \E data \in {EventsBody(catalog, PageOf(req.cursor), next)} :
     \E allMarkets \in {computes[c].allMarkets
                          \o FlattenExcept(EventsOf(data), computes[c].props.ticker)} :
     \E cursor \in {CursorOf(data)} :
     \E page \in {computes[c].page + 1} :
     \E loaded \in {[status |-> [msg |-> "Loaded", markets |-> Len(allMarkets), page |-> page]]} :
       IF cursor # None /\ page < ChartPageCap /\ ~computes[c].cancelled
       THEN /\ computes' = [computes EXCEPT ![c].allMarkets = allMarkets, ![c].page = page]
            /\ ChartSets(c, loaded)
            /\ inflight' = (inflight \ {req}) \cup {Request(ComputeOwner(c), "events", <<>>, cursor, 0, 0)}
       ELSE IF computes[c].cancelled
       THEN \* line 62 or line 86 returns; line 83 has run when a cursor came
            /\ ComputeReturn(c, computes[c])
            /\ IF cursor # None THEN ChartSets(c, loaded) ELSE UNCHANGED <<chart, lateCalls>>
            /\ inflight' = inflight \ {req}
       ELSE ComputeScore(c, computes[c], allMarkets, req)
  /\ UNCHANGED <<world, pageVars, scannerVars, fetchAll, mounted, props>>

\* await fetchEvents(params) rejects: the outer catch
ComputeEventsFail(req) ==
  /\ req \in inflight
  /\ req.owner[1] = "compute" /\ req.kind = "events"
  /\ ComputeCatch(req.owner[2])
  /\ inflight' = inflight \ {req}
  /\ UNCHANGED <<world, pageVars, scannerVars, fetchAll, mounted, props>>

\* compute resumes after await fetchTrades(ticker) of the target (lines
\* 113-130), or the fetch rejects and the outer catch runs
ComputeTargetTrades(req) ==
  /\ req \in inflight
  /\ req.owner[1] = "compute" /\ req.kind = "trades" /\ req.i = -1
  /\ LET c == req.owner[2]
         compute == computes[c]
     IN IF req.ticker \in failing.trades
        THEN /\ ComputeCatch(c)
             /\ inflight' = inflight \ {req}
        ELSE IF compute.cancelled
        THEN /\ ComputeReturn(c, compute)
             /\ inflight' = inflight \ {req}
             /\ UNCHANGED <<chart, lateCalls>>
        ELSE /\ computes' = [computes EXCEPT ![c].targetTrades = Reverse(TradesResult(req.ticker)),
                                             ![c].pc = "batch", ![c].i = 0,
                                             ![c].outs = ChartBatchOuts(compute.topRelated, 0)]
             /\ inflight' = (inflight \ {req}) \cup ChartBatchRequests(c, compute.topRelated, 0)
             /\ UNCHANGED <<chart, lateCalls>>
  /\ UNCHANGED <<world, pageVars, scannerVars, fetchAll, mounted, props>>

\* step 5 of compute (lines 136-194)
ComputeBuild(c, compute, tradeResults) ==
  \E targetPrices \in {Prices(compute.targetTrades)} :
  \E lines \in {ValidLines(tradeResults)} :
    /\ ComputeReturn(c, compute)
    /\ IF Len(targetPrices) < 2
       THEN ChartSets(c, [status |-> [msg |-> "Found (not enough trades for chart)",
                                      found |-> Len(compute.topRelated)],
                          loading |-> FALSE])
       ELSE ChartSets(c, [chartData |-> ChartPoints(compute.props.ticker, targetPrices, lines),
                          chartKeys |-> [k \in 1..Len(lines) |-> lines[k].ticker],
                          related |-> ApplyCorr(compute.topRelated, targetPrices, lines),
                          status |-> [msg |-> "Found", found |-> Len(compute.topRelated)],
                          loading |-> FALSE])

\* a candidate's fetchTrades settles: .then or .catch of lines 126-128;
\* when it is the last of its batch, Promise.all resolves and compute runs
\* on to the next batch or to step 5
ComputeItemTrades(req) ==
  /\ req \in inflight
  /\ req.owner[1] = "compute" /\ req.kind = "trades" /\ req.i >= 0
  /\ \E c \in {req.owner[2]} :
     \E compute \in {computes[c]} :
     \E outs \in {[compute.outs EXCEPT
                     ![req.item] = WithFields(@, [trades |-> Reverse(TradesResult(req.ticker))])]} :
     \E settled \in {\A k \in 1..Len(outs) : "trades" \in DOMAIN outs[k]} :
     \E i \in {compute.i + ChartBatchWidth} :
       /\ inflight' = (inflight \ {req})
                        \cup (IF settled /\ i < Len(ChartCandidates(compute.topRelated)) /\ ~compute.cancelled
                              THEN ChartBatchRequests(c, compute.topRelated, i)
                              ELSE {})
       /\ IF ~settled
          THEN /\ computes' = [computes EXCEPT ![c].outs = outs]
               /\ UNCHANGED <<chart, lateCalls>>
          ELSE IF compute.cancelled
          THEN /\ ComputeReturn(c, compute)
               /\ UNCHANGED <<chart, lateCalls>>
          ELSE IF i < Len(ChartCandidates(compute.topRelated))
          THEN /\ computes' = [computes EXCEPT ![c].tradeResults = compute.tradeResults \o outs,
                                               ![c].i = i,
                                               ![c].outs = ChartBatchOuts(compute.topRelated, i)]
               /\ UNCHANGED <<chart, lateCalls>>
          ELSE ComputeBuild(c, compute, compute.tradeResults \o outs)
  /\ UNCHANGED <<world, pageVars, scannerVars, fetchAll, mounted, props>>

\* the targets MarketDetail may render the chart for
ChartTargets ==
  IF catalog = "small"
  THEN {[ticker |-> <<"K", "X", "F", "E", "D", "-", "1">>, title |-> <<"F", "e", "d", " ", "r", "a", "i", "s", "e", "s", " ", "r", "a", "t", "e", "s">>, eventTicker |-> Some(<<"K", "X", "F", "E", "D">>)],
        [ticker |-> <<"K", "X", "M", "I", "S", "C">>, title |-> <<"Z", "e", "b", "r", "a">>, eventTicker |-> None]}
  ELSE {[ticker |-> <<"K", "X", "B", "I", "G", "-", "0", "5">>, title |-> <<"B", "i", "g", " ", "r", "a", "t", "e", " ", "h", "i", "k", "e">>, eventTicker |-> Some(<<"K", "X", "B", "I", "G">>)]}

\* the parent renders the chart with other props: the cleanup of the effect
\* cancels the running compute, and the effect starts a new one
ChangeProps(p) ==
  /\ route = "CorrelationChart" /\ mounted
  /\ p # props
  /\ Len(computes) < MaxScans
  /\ props' = p
  /\ computes' = Append([computes EXCEPT ![Len(computes)].cancelled = TRUE], ComputeStart(p))
  /\ chart' = ChartReset
  /\ inflight' = inflight \cup {Request(ComputeOwner(Len(computes) + 1), "events", <<>>, None, 0, 0)}
  /\ UNCHANGED <<world, pageVars, scannerVars, fetchAll, mounted, lateCalls>>

\* the chart is unmounted: the cleanup of the effect runs
UnmountChart ==
  /\ route = "CorrelationChart" /\ mounted
  /\ mounted' = FALSE
  /\ computes' = [computes EXCEPT ![Len(computes)].cancelled = TRUE]
  /\ UNCHANGED <<world, pageVars, scannerVars, fetchAll, inflight, props, chart, lateCalls>>

(***************************************************************************)
(* fetchAllOpenMarkets (api/kalshi.js)                                     *)
(***************************************************************************)
MAX_PAGES == 5

FetchAllOwner == <<"fetchAllOpenMarkets", 0>>

FetchAllIdle == [pc |-> "idle", allMarkets |-> <<>>, pages |-> 0, ret |-> None]

\* data.markets || []
MarketListOf(data) == IF "markets" \in DOMAIN data THEN data.markets ELSE <<>>

\* fetchAllOpenMarkets resumes after await fetchMarkets(...): one turn of the
\* do-while loop
FetchAllMarkets(req, next) ==
  /\ req \in inflight
  /\ req.owner = FetchAllOwner
  /\ \E data \in {MarketsBody(catalog, PageOf(req.cursor), next)} :
     \E allMarkets \in {fetchAll.allMarkets \o MarketListOf(data)} :
     \E cursor \in {CursorOf(data)} :
     \E pages \in {fetchAll.pages + 1} :
       IF cursor # None /\ pages < MAX_PAGES
       THEN /\ fetchAll' = [fetchAll EXCEPT !.allMarkets = allMarkets, !.pages = pages]
            /\ inflight' = (inflight \ {req}) \cup {Request(FetchAllOwner, "markets", <<>>, cursor, 0, 0)}
       ELSE /\ fetchAll' = [fetchAll EXCEPT !.pc = "done", !.allMarkets = allMarkets, !.pages = pages,
                                            !.ret = Some(allMarkets)]
            /\ inflight' = inflight \ {req}
  /\ UNCHANGED <<world, pageVars, mounted, scannerVars, chartVars, lateCalls>>

\* await fetchMarkets(...) rejects: fetchAllOpenMarkets rejects
FetchAllMarketsFail(req) ==
  /\ req \in inflight
  /\ req.owner = FetchAllOwner
  /\ fetchAll' = [fetchAll EXCEPT !.pc = "rejected"]
  /\ inflight' = inflight \ {req}
  /\ UNCHANGED <<world, pageVars, mounted, scannerVars, chartVars, lateCalls>>

(***************************************************************************)
(* The analytic functions called on their own (api/stats.js, the           *)
(* correlation functions). An argument is None for null or undefined, else *)
(* Some(value); a call returns a value or raises a TypeError where the     *)
(* code reads a property of null.                                          *)
(***************************************************************************)
Returned(v) == [threw |-> FALSE, value |-> v]

TypeError == [threw |-> TRUE, value |-> "TypeError"]

NoCall == [fn |-> "", args |-> <<>>, outcome |-> Returned(None)]

\* m.volume ?? 0
VolumeOf(m) == IF "volume" \in DOMAIN m THEN m.volume ELSE 0

\* allMarkets.map(m => m.volume ?? 0).filter(v => v > 0)
Volumes(allMarkets) ==
  SelectSeq([i \in 1..Len(allMarkets) |-> VolumeOf(allMarkets[i])], LAMBDA v : v > 0)

\* computeVolumeAnalysis(market, allMarkets); both are present
computeVolumeAnalysis(market, allMarkets) ==
  LET vol == VolumeOf(market)
      Of(volumes, avg) ==
        LET Relative(relativeVolume) ==
              Some([volume |-> vol,
                    avgVolume |-> RoundTo(avg, 1).n,
                    relativeVolume |-> RoundTo(relativeVolume, 100),
                    volumeRank |-> IF vol \in Range(volumes)
                                   THEN Cardinality({i \in 1..Len(volumes) : volumes[i] > vol}) + 1
                                   ELSE 0,
                    totalMarkets |-> Len(volumes),
                    isHotVolume |-> FracLess(Frac(2, 1), relativeVolume)])
        IN Relative(IF avg.n > 0 THEN Frac(vol * avg.d, avg.n) ELSE Frac(0, 1))
      OfVolumes(volumes) ==
        IF Len(volumes) = 0 THEN None ELSE Of(volumes, Frac(Sum(volumes), Len(volumes)))
  IN OfVolumes(Volumes(allMarkets))

\* computeSpread: if (!orderbook) return null
computeSpreadOutcome(orderbook) == Returned(computeSpread(orderbook))

\* computeMomentum: if (!trades || trades.length < 4) return null
computeMomentumOutcome(trades) ==
  Returned(IF trades = None THEN None ELSE computeMomentum(trades[1]))

\* computeDivergence: if (!targetTrades?.length || !candidateTrades?.length) return null
computeDivergenceOutcome(targetTrades, candidateTrades) ==
  Returned(IF targetTrades = None \/ candidateTrades = None THEN None
           ELSE computeDivergence(targetTrades[1], candidateTrades[1]))

\* detectArbitrage: if (!eventMarkets || eventMarkets.length < 2) return null
detectArbitrageOutcome(eventMarkets) ==
  Returned(IF eventMarkets = None THEN None ELSE detectArbitrage(eventMarkets[1]))

\* computeVolumeAnalysis: allMarkets.map(...) first, market.volume after the
\* return for an empty volume list
computeVolumeAnalysisOutcome(market, allMarkets) ==
  IF allMarkets = None THEN TypeError
  ELSE IF Len(Volumes(allMarkets[1])) = 0 THEN Returned(None)
  ELSE IF market = None THEN TypeError
  ELSE Returned(computeVolumeAnalysis(market[1], allMarkets[1]))

\* pearsonCorrelation: Math.min(seriesA.length, seriesB.length)
pearsonCorrelationOutcome(seriesA, seriesB) ==
  IF seriesA = None \/ seriesB = None THEN TypeError
  ELSE Returned(pearsonCorrelation(seriesA[1], seriesB[1]))

\* normalizeSeries: if (!prices.length) return []
normalizeSeriesOutcome(prices) ==
  IF prices = None THEN TypeError ELSE Returned(normalizeSeries(prices[1]))

\* extractKeywords: if (!text) return []
extractKeywordsOutcome(text) ==
  Returned(IF text = None THEN <<>> ELSE extractKeywords(text[1]))

\* keywordSimilarity: if (!kwA.length || !kwB.length) return 0
keywordSimilarityOutcome(kwA, kwB) ==
  IF kwA = None THEN TypeError
  ELSE IF Len(kwA[1]) = 0 THEN Returned(Frac(0, 1))
  ELSE IF kwB = None THEN TypeError
  ELSE Returned(keywordSimilarity(kwA[1], kwB[1]))

\* computeRelatedness: target.event_ticker, then candidate.event_ticker or
\* candidate.title
computeRelatednessOutcome(target, candidate) ==
  IF target = None \/ candidate = None THEN TypeError
  ELSE Returned(computeRelatedness(target[1], candidate[1]))

\* the arguments the functions are called with
SeriesInputs ==
  {None, Some(<<>>), Some(<<50, 50, 50>>), Some(<<10, 20, 30, 40>>),
   Some(<<10, 12, 15, 20, 22, 30, 31, 35, 40, 50>>),
   Some(<<7, 7, 7, 7, 7, 7, 7, 7, 7, 7>>),
   Some(<<90, 80, 85, 70, 60, 65, 50, 40, 30, 35, 20, 10>>)}

\* the decimal literal n/d of the source text as a double
Decimal(n, d) == DDiv(DFromInt(n), DFromInt(d))

\* the series pearsonCorrelation is called with: integer prices and a
\* series of the decimal 0.1
CorrelationInputs ==
  {None, Some(<<>>), Some(Doubles(<<10, 20, 30, 40>>)),
   Some(Doubles(<<10, 12, 15, 20, 22, 30, 31, 35, 40, 50>>)),
   Some(Doubles(<<7, 7, 7, 7, 7, 7, 7, 7, 7, 7>>)),
   Some(Doubles(<<7, 7, 7, 7, 7, 7, 7, 7, 7, 7, 9, 11>>)),
   Some(Doubles(<<16, 89, 61, 32, 81, 88, 32, 54, 73, 60, 77>>)),
   Some(Doubles(<<25, 98, 70, 41, 90, 97, 41, 63, 82, 69, 86>>)),
   Some([i \in 1..10 |-> Decimal(1, 10)])}

TradeInputs ==
  {None, Some(<<>>), Some(Yes(<<70, 68, 65, 60, 55, 50>>)), Some(Yes(<<10, 20, 30>>)),
   Some(<<[yes_price |-> 50], [price |-> 52], [yes_price |-> 54, price |-> 1], [count |-> 3]>>),
   Some(Yes(<<40, 60>>)), Some(Yes(<<2, 7, 2, 5, 2, 7>>)), Some(Yes(<<30, 31, 40, 41, 42>>)),
   Some(Yes(<<50, 55, 60, 65, 68, 70>>)), Some(Yes(<<41, 40, 40, 40>>)), Some(Yes(<<90, 50, 10>>))}

OrderbookInputs ==
  {None, Some([yes |-> <<<<45, 100>>>>, no |-> <<<<40, 50>>>>]), Some([yes |-> <<<<48, 10>>, <<47, 5>>>>]),
   Some([no |-> <<<<40, 50>>>>]), Some([yes |-> <<>>, no |-> <<>>]),
   Some([yes |-> <<<<48, 10>>, <<47, 5>>>>, no |-> <<<<50, 3>>, <<49, 1>>, <<45, 7>>>>]),
   Some([yes |-> <<<<0, 5>>>>, no |-> <<<<100, 5>>>>]), Some([yes |-> <<<<60, 1>>>>, no |-> <<<<50, 1>>>>])}

MarketInputs ==
  {None,
   Some([ticker |-> <<"K", "X", "F", "E", "D", "-", "1">>, title |-> <<"F", "e", "d", " ", "r", "a", "i", "s", "e", "s", " ", "r", "a", "t", "e", "s">>, event_ticker |-> <<"K", "X", "F", "E", "D">>,
         last_price |-> 70, volume |-> 500]),
   Some([ticker |-> <<"K", "X", "F", "E", "D", "-", "2">>, title |-> <<"F", "e", "d", " ", "c", "u", "t", "s", " ", "r", "a", "t", "e", "s">>, event_ticker |-> <<"K", "X", "F", "E", "D">>,
         last_price |-> 50, volume |-> 900]),
   Some([ticker |-> <<"K", "X", "F", "E", "D", "-", "3">>, title |-> <<"L", "l", "a", "m", "a", " ", "c", "r", "o", "s", "s", "i", "n", "g">>, event_title |-> <<"P", "o", "p", "e", " ", "v", "i", "s", "i", "t">>, event_ticker |-> <<"K", "X", "F", "E", "D">>,
         last_price |-> 0]),
   Some([ticker |-> <<"K", "X", "C", "P", "I", "-", "1">>, title |-> <<"W", "i", "l", "l", " ", "t", "h", "e", " ", "F", "e", "d", " ", "c", "u", "t", " ", "r", "a", "t", "e", "s", "?">>, event_ticker |-> <<"K", "X", "C", "P", "I">>,
         last_price |-> 20, volume |-> 40]),
   Some([ticker |-> <<"Z", "O", "O", "-", "1">>, title |-> <<"Z", "e", "b", "r", "a">>, event_ticker |-> <<>>, last_price |-> 100]),
   Some([title |-> <<"Z", "e", "b", "r", "a">>])}

MarketListInputs ==
  {None, Some(<<>>), Some(<<[title |-> <<"Z", "e", "b", "r", "a">>]>>),
   Some(<<[last_price |-> 60, volume |-> 500], [last_price |-> 60, volume |-> 900], [title |-> <<"Z", "e", "b", "r", "a">>]>>),
   Some(<<[last_price |-> 50, volume |-> 10], [last_price |-> 50, volume |-> 10]>>),
   Some(<<[last_price |-> 70], [last_price |-> 50, volume |-> 0]>>),
   Some(<<[last_price |-> 65, volume |-> 3], [last_price |-> 0, volume |-> 7], [last_price |-> 50]>>),
   Some(<<[last_price |-> 45], [last_price |-> 40]>>),
   Some(<<[last_price |-> 30], [last_price |-> 30], [last_price |-> 24]>>),
   Some(<<[last_price |-> 99, volume |-> 12], [last_price |-> 0, volume |-> 12]>>)}

TextInputs ==
  {None, Some(<<>>), Some(<<"T", "h", "e", " ", "F", "e", "d", " ", "W", "i", "l", "l", " ", "R", "a", "i", "s", "e", " ", "R", "a", "t", "e", "s">>),
   Some(<<"R", "a", "t", "e", "s", "\t", "r", "a", "t", "e", "s", ",", " ", "R", "A", "T", "E", "S", " ", "p", "e", "r", " ", "1", "0", "0", "\n">>),
   Some(<<"T", "h", "e", " ", "F", "e", "d", " ", "W", "i", "l", "l", " ", "R", "a", "i", "s", "e", " ", "R", "a", "t", "e", "s", "?">>), Some(<<"a", " ", "a", "n", " ", "t", "h", "e">>), Some(<<" ", " ", "U", ".", "S", ".", " ", "G", "D", "P", "-", "2", "0", "2", "6", " ", " ">>)}

KeywordInputs ==
  {None, Some(<<>>), Some(<<<<"f", "e", "d">>>>), Some(<<<<"f", "e", "d">>, <<"r", "a", "t", "e", "s">>>>), Some(<<<<"f", "e", "d">>, <<"p", "o", "p", "e">>, <<"f", "e", "d">>>>),
   Some(<<<<"r", "a", "t", "e", "s">>, <<"f", "e", "d">>, <<"f", "e", "d">>>>)}

\* one call of a function; the functions keep no state between calls
CallOf(fn, args, outcome) ==
  /\ route = "analytics"
  /\ call = NoCall
  /\ call' = [fn |-> fn, args |-> args, outcome |-> outcome]
  /\ UNCHANGED <<catalog, failing, route, mounted, inflight, scannerVars, chartVars, fetchAll, lateCalls, pageVars>>

CallComputeSpread ==
  \E orderbook \in OrderbookInputs :
    CallOf("computeSpread", <<orderbook>>, computeSpreadOutcome(orderbook))

CallComputeMomentum ==
  \E trades \in TradeInputs :
    CallOf("computeMomentum", <<trades>>, computeMomentumOutcome(trades))

CallComputeDivergence ==
  \E targetTrades \in TradeInputs : \E candidateTrades \in TradeInputs :
    CallOf("computeDivergence", <<targetTrades, candidateTrades>>,
           computeDivergenceOutcome(targetTrades, candidateTrades))

CallDetectArbitrage ==
  \E eventMarkets \in MarketListInputs :
    CallOf("detectArbitrage", <<eventMarkets>>, detectArbitrageOutcome(eventMarkets))

CallComputeVolumeAnalysis ==
  \E market \in MarketInputs : \E allMarkets \in MarketListInputs :
    CallOf("computeVolumeAnalysis", <<market, allMarkets>>,
           computeVolumeAnalysisOutcome(market, allMarkets))

CallPearsonCorrelation ==
  \E seriesA \in CorrelationInputs : \E seriesB \in CorrelationInputs :
    CallOf("pearsonCorrelation", <<seriesA, seriesB>>, pearsonCorrelationOutcome(seriesA, seriesB))

CallNormalizeSeries ==
  \E prices \in SeriesInputs :
    CallOf("normalizeSeries", <<prices>>, normalizeSeriesOutcome(prices))

CallExtractKeywords ==
  \E text \in TextInputs :
    CallOf("extractKeywords", <<text>>, extractKeywordsOutcome(text))

CallKeywordSimilarity ==
  \E kwA \in KeywordInputs : \E kwB \in KeywordInputs :
    CallOf("keywordSimilarity", <<kwA, kwB>>, keywordSimilarityOutcome(kwA, kwB))

CallComputeRelatedness ==
  \E target \in MarketInputs : \E candidate \in MarketInputs :
    CallOf("computeRelatedness", <<target, candidate>>, computeRelatednessOutcome(target, candidate))

\* the first n pages of GET /events and of GET /markets, in order
RECURSIVE EventsUpTo(_, _)
EventsUpTo(catalog_, n) ==
  IF n = 0 THEN <<>> ELSE EventsUpTo(catalog_, n - 1) \o EventsPage(catalog_, n)

RECURSIVE MarketsUpTo(_, _)
MarketsUpTo(catalog_, n) ==
  IF n = 0 THEN <<>> ELSE MarketsUpTo(catalog_, n - 1) \o MarketsPage(catalog_, n)

(***************************************************************************)
(* Specification                                                           *)
(***************************************************************************)
\* what the user types into the reference input
RefInputs ==
  IF catalog = "small" THEN {<<"k", "x", "f", "e", "d", "-", "2">>, <<"k", "x", "m", "i", "s", "c">>}
  ELSE {<<>>, <<" ", "k", "x", "b", "i", "g", "-", "0", "0", " ">>, <<"M", "I", "D">>, <<"Z", "Z", "9">>}

\* the Scanner after its first render and its mount effect: loadAll has run
\* up to its first await fetchEvents
InitScanner ==
  /\ route = "Scanner"
  /\ mounted = TRUE
  /\ scanner = [ScannerInitial EXCEPT !.status = [msg |-> "Loading market universe..."],
                                      !.scanPhase = "loading-events"]
  /\ loadAll = [LoadAllIdle EXCEPT !.pc = "fetching"]
  /\ inflight = {Request(LoadAllOwner, "events", <<>>, None, 0, 0)}
  /\ props = None /\ chart = ChartInitial /\ computes = <<>> /\ fetchAll = FetchAllIdle

\* the CorrelationChart after its first render and its effect: compute has
\* run up to its first await fetchEvents
InitChart ==
  /\ route = "CorrelationChart"
  /\ mounted = TRUE
  /\ props \in ChartTargets
  /\ chart = ChartReset
  /\ computes = <<ComputeStart(props)>>
  /\ inflight = {Request(ComputeOwner(1), "events", <<>>, None, 0, 0)}
  /\ scanner = ScannerInitial /\ loadAll = LoadAllIdle /\ fetchAll = FetchAllIdle

\* fetchAllOpenMarkets() has been called and awaits its first fetchMarkets
InitFetchAll ==
  /\ route = "fetchAllOpenMarkets"
  /\ mounted = TRUE
  /\ fetchAll = [FetchAllIdle EXCEPT !.pc = "fetching"]
  /\ inflight = {Request(FetchAllOwner, "markets", <<>>, None, 0, 0)}
  /\ scanner = ScannerInitial /\ loadAll = LoadAllIdle
  /\ props = None /\ chart = ChartInitial /\ computes = <<>>

InitProgram ==
  /\ failing \in FailureWorlds
  /\ PagesIdle
  /\ call = NoCall
  /\ scans = <<>>
  /\ writer = WriterNone
  /\ lateCalls = {}
  /\ (InitScanner \/ InitChart \/ InitFetchAll)

\* the fetches settle in any order
Settle ==
  \/ \E req \in inflight : \E next \in NextCursors(PageOf(req.cursor)) : LoadAllEvents(req, next)
  \/ \E req \in inflight : LoadAllEventsFail(req)
  \/ \E req \in inflight : ScanRefTrades(req)
  \/ \E req \in inflight : ItemTrades(req)
  \/ \E req \in inflight : ItemOrderbook(req)
  \/ \E req \in inflight : \E next \in NextCursors(PageOf(req.cursor)) : ComputeEvents(req, next)
  \/ \E req \in inflight : ComputeEventsFail(req)
  \/ \E req \in inflight : ComputeTargetTrades(req)
  \/ \E req \in inflight : ComputeItemTrades(req)
  \/ \E req \in inflight : \E next \in NextCursors(PageOf(req.cursor)) : FetchAllMarkets(req, next)
  \/ \E req \in inflight : FetchAllMarketsFail(req)

\* Spec: the small upstream, every user action
Init == catalog = "small" /\ InitProgram

Next ==
  \/ Settle
  \/ \E v \in RefInputs : SetRefTicker(v)
  \/ ScanButton
  \/ EnterKey
  \/ UnmountScanner
  \/ \E p \in ChartTargets : ChangeProps(p)
  \/ UnmountChart

Spec == Init /\ [][Next]_vars

\* SpecSerial: the large upstream; a scan is started and the ticker is typed
\* only while no scan is loading and the chart keeps its props, so
\* that one routine runs at a time
InitSerial == catalog = "big" /\ InitProgram

NextSerial ==
  \/ Settle
  \/ (~scanner.loading /\ \E v \in RefInputs : SetRefTicker(v))
  \/ ScanButton
  \/ (~scanner.loading /\ EnterKey)
  \/ UnmountScanner
  \/ UnmountChart

SpecSerial == InitSerial /\ [][NextSerial]_vars

\* SpecAnalytics: the analytic functions, each called with every argument
\* of its input sets
InitAnalytics ==
  /\ route = "analytics"
  /\ PagesIdle
  /\ catalog = "small"
  /\ failing = [trades |-> {}, orderbook |-> {}]
  /\ mounted = FALSE
  /\ inflight = {}
  /\ scanner = ScannerInitial /\ loadAll = LoadAllIdle /\ scans = <<>> /\ writer = WriterNone
  /\ props = None /\ chart = ChartInitial /\ computes = <<>>
  /\ fetchAll = FetchAllIdle
  /\ lateCalls = {}
  /\ call = NoCall

NextAnalytics ==
  \/ CallComputeSpread
  \/ CallComputeMomentum
  \/ CallComputeDivergence
  \/ CallDetectArbitrage
  \/ CallComputeVolumeAnalysis
  \/ CallPearsonCorrelation
  \/ CallNormalizeSeries
  \/ CallExtractKeywords
  \/ CallKeywordSimilarity
  \/ CallComputeRelatedness

SpecAnalytics == InitAnalytics /\ [][NextAnalytics]_vars

(***************************************************************************)
(* Properties                                                              *)
(***************************************************************************)

\* C1: once a later scan has started, no earlier scan writes results,
\* status, scanPhase, refMarket or loading: each of them was last written by
\* the most recently started scan (status also by the not-found message of a
\* runScan that started no scan), so the display belongs to the latest scan
DisplayBelongsToLatestScan ==
  Len(scans) > 0 =>
    /\ \A f \in {"results", "scanPhase", "refMarket", "loading"} : writer[f] = Len(scans)
    /\ writer.status \in {0, Len(scans)}

\* C2: once the cleanup of the effect has set cancelled, the stale routine
\* (CorrelationChart.compute, Scanner.loadAll) calls no state setter
NoSetterAfterCancel == lateCalls = {}


\* C9: no analytic function raises, whatever it is called with (absent
\* arguments, empty sequences, records with missing fields): every call
\* returns a value or the null sentinel
AnalyticsNeverRaise == ~call.outcome.threw

\* C3: in runScan a rejected fetchTrades or fetchOrderbook of one top-15
\* market, or of the reference market's trades, aborts nothing: a scan whose
\* fetches have all settled is done, every top-15 entry of a done scan
\* carries exactly the spread, momentum and divergence fields its own
\* fetched data give (none from a failed fetch), and the scan ends with
\* scanPhase 'done' and loading false
ScanSurvivesFailedFetches ==
  \A s \in 1..Len(scans) :
    LET scan == scans[s]
        top == TopOf(scan.scored)
        Fetched(kind, t) ==
          LET body == IF kind = "trades" THEN TradesBody(catalog, t) ELSE OrderbookBody(catalog, t)
          IN IF t \in failing[kind] \/ kind \notin DOMAIN body THEN None ELSE Some(body[kind])
        TradesOf(t) == IF Fetched("trades", t) = None THEN <<>> ELSE Fetched("trades", t)[1]
    IN /\ (\A r \in inflight : r.owner # ScanOwner(s)) => scan.pc = "done"
       /\ scan.pc = "done" =>
            \A k \in 1..Len(top) :
              LET e == top[k]
                  spread == computeSpread(Fetched("orderbook", e.ticker))
                  mom == MomentumOfServed(TradesOf(e.ticker))
                  div == DivergenceOfServed(TradesOf(scan.ref.ticker), TradesOf(e.ticker))
              IN /\ {"spread", "spreadPct", "depth"} \cap DOMAIN e
                      = IF spread = None THEN {} ELSE {"spread", "spreadPct", "depth"}
                 /\ spread # None => /\ e.spread = spread[1].spread
                                     /\ e.spreadPct = spread[1].spreadPct
                                     /\ e.depth = spread[1].depth
                 /\ {"momentumDir", "momentumMag", "velocity"} \cap DOMAIN e
                      = IF mom = None THEN {} ELSE {"momentumDir", "momentumMag", "velocity"}
                 /\ mom # None => /\ e.momentumDir = mom[1].direction
                                  /\ e.momentumMag = mom[1].magnitude
                                  /\ e.velocity = mom[1].velocity
                 /\ {"divergence", "divDirection"} \cap DOMAIN e
                      = IF div = None THEN {} ELSE {"divergence", "divDirection"}
                 /\ div # None => /\ e.divergence = div[1].divergence
                                  /\ e.divDirection = div[1].direction
                 /\ e.ticker \in failing.orderbook => "spread" \notin DOMAIN e
                 /\ e.ticker \in failing.trades => {"momentumDir", "divergence"} \cap DOMAIN e = {}
                 /\ scan.ref.ticker \in failing.trades => "divergence" \notin DOMAIN e
       /\ (scan.pc = "done" /\ s = Len(scans) /\ mounted) =>
            /\ scanner.scanPhase = "done"
            /\ ~scanner.loading
            /\ scanner.results = scan.scored

\* C3 witness: a scan is done although the trades fetch of one top-15 market
\* and the orderbook fetch of another rejected, and a third carries all the
\* statistics
ScanDoneDespiteFailures ==
  \E s \in 1..Len(scans) :
    LET top == TopOf(scans[s].scored)
    IN /\ scans[s].pc = "done"
       /\ scanner.scanPhase = "done" /\ ~scanner.loading
       /\ \E k \in 1..Len(top) : top[k].ticker \in failing.trades
       /\ \E k \in 1..Len(top) : top[k].ticker \in failing.orderbook
       /\ \E k \in 1..Len(top) : {"spread", "momentumDir", "divergence"} \subseteq DOMAIN top[k]

\* C4: in CorrelationChart.compute no single rejected fetch (an events page,
\* the target's trades, one candidate's trades) turns status into an
\* 'Error: ...' message
ChartSurvivesFailedFetch == chart.status.msg # "Error"

\* C5: of one scan (runScan, compute) at most 5 fetches are in flight, and
\* all of them belong to the same batch: no fetch of a later batch is issued
\* while one of an earlier batch is unsettled
BoundedBatches ==
  /\ \A s \in 1..Len(scans) :
       LET mine == {r \in inflight : r.owner = ScanOwner(s)}
       IN /\ Cardinality(mine) <= 5
          /\ \A r1, r2 \in mine : r1.i = r2.i
  /\ \A c \in 1..Len(computes) :
       LET mine == {r \in inflight : r.owner = ComputeOwner(c)}
       IN /\ Cardinality(mine) <= 5
          /\ \A r1, r2 \in mine : r1.i = r2.i

\* C5 witness: the second batch of a scan is in flight with 5 fetches
SecondBatchInFlight ==
  \E s \in 1..Len(scans) :
    /\ scans[s].pc = "batch" /\ scans[s].i = 5
    /\ Cardinality({r \in inflight : r.owner = ScanOwner(s) /\ r.i = 5}) = 5

\* C7: when no loaded market has the entered ticker (an empty input
\* included) runScan starts no scan and issues no fetch; it only sets the
\* not-found status and leaves results, refMarket, loading and scanPhase
UnknownTickerStartsNoScan ==
  [][((EnterKey \/ ScanButton)
        /\ \A k \in 1..Len(scanner.allMarkets) :
             scanner.allMarkets[k].ticker # toUpperCase(trim(scanner.refTicker)))
      => /\ scans' = scans
         /\ inflight' = inflight
         /\ scanner'.status.msg = "not found"
         /\ scanner' = [scanner EXCEPT !.status = scanner'.status]]_vars


\* the pagination contract of the three loaders, where compute accumulates
\* ChartList(events, ticker) of the pages it received
PagesAccumulated(ChartList(_, _)) ==
       (/\ \A r \in inflight :
             r.kind \in {"events", "markets"} =>
               LET n == IF r.owner = LoadAllOwner THEN loadAll.page
                        ELSE IF r.owner = FetchAllOwner THEN fetchAll.pages
                        ELSE computes[r.owner[2]].page
                   cap == IF r.owner[1] = "compute" THEN 3 ELSE 5
               IN /\ r.cursor = IF n = 0 THEN None ELSE Some(PageCursor(n + 1))
                  /\ n < cap
                  /\ r.owner = LoadAllOwner =>
                       /\ loadAll.events = EventsUpTo(catalog, n)
                       /\ loadAll.markets = Flatten(EventsUpTo(catalog, n))
                  /\ r.owner = FetchAllOwner => fetchAll.allMarkets = MarketsUpTo(catalog, n)
                  /\ r.owner[1] = "compute" =>
                       computes[r.owner[2]].allMarkets
                         = ChartList(EventsUpTo(catalog, n), computes[r.owner[2]].props.ticker)
        /\ fetchAll.pc = "done" =>
             /\ fetchAll.pages <= 5
             /\ fetchAll.ret = Some(MarketsUpTo(catalog, fetchAll.pages))
        /\ \A c \in 1..Len(computes) :
             computes[c].pc \in {"targetTrades", "batch"} =>
               /\ computes[c].page < 3
               /\ computes[c].allMarkets
                    = ChartList(EventsUpTo(catalog, computes[c].page + 1), computes[c].props.ticker))

\* a step of a loader: no page is asked for after a response without a
\* cursor, and loadAll hands over the concatenation of its pages
PagesStep ==
        /\ (\E req \in inflight : \E next \in {None, Some(<<>>)} :
              \/ LoadAllEvents(req, next)
              \/ ComputeEvents(req, next)
              \/ FetchAllMarkets(req, next))
            => \A r \in inflight' \ inflight : r.kind \notin {"events", "markets"}
        /\ ((\E req \in inflight : \E next \in NextCursors(PageOf(req.cursor)) : LoadAllEvents(req, next))
              /\ loadAll'.pc = "done" /\ mounted /\ ~loadAll.cancelled)
            => /\ scanner'.allEvents = EventsUpTo(catalog, loadAll.page + 1)
               /\ scanner'.allMarkets = Flatten(scanner'.allEvents)

\* C8 as claimed: each loader asks for the first page without a cursor and
\* for every next page with the cursor of the previous response, stops at the
\* first response without a cursor, never issues more than 5, 5 and 3
\* requests, and its accumulated list is the concatenation of the received
\* pages in request order
PaginationConcatenatesPages ==
  [](PagesAccumulated(LAMBDA evts, t : Flatten(evts))) /\ [][PagesStep]_vars

\* C8 as amended: the same, where the list CorrelationChart.compute
\* accumulates is the concatenation of the received pages without the
\* markets that carry the chart's own ticker
PaginationContract == [](PagesAccumulated(FlattenExcept)) /\ [][PagesStep]_vars

\* C8 witness: loadAll has received four pages and awaits its fifth, asked
\* for with the cursor of the fourth response
FifthPageRequested ==
  /\ loadAll.page = 4
  /\ loadAll.events # <<>>
  /\ \E r \in inflight : r.owner = LoadAllOwner /\ r.cursor = Some(PageCursor(5))

\* C10: the scoring step leaves the top-N above the threshold: in runScan
\* at most 30 entries, never the reference market, only scores above 0.01, in
\* non-increasing score order, each a loaded market with its relatedness
\* score, and a market left out scores no higher than any kept one and is
\* above the threshold only when the list is full; in compute the same with
\* 8 entries and 0.05
TopNAboveThreshold ==
  [][LET Holds(list, pool, target, cap, min) ==
        LET others == SelectSeq(pool, LAMBDA m : m.ticker # target.ticker)
            score == [j \in 1..Len(others) |-> computeRelatedness(target, others[j]).score]
            kept == {list[k].ticker : k \in 1..Len(list)}
            lowest == list[Len(list)].score
        IN /\ Len(list) <= cap
           /\ \A k \in 1..Len(list) :
                /\ list[k].ticker # target.ticker
                /\ FracLess(min, list[k].score)
                /\ k < Len(list) => ~FracLess(list[k].score, list[k + 1].score)
                /\ \E j \in 1..Len(others) :
                     others[j].ticker = list[k].ticker /\ list[k].score = score[j]
           /\ \A j \in 1..Len(others) :
                others[j].ticker \notin kept
                => /\ Len(list) > 0 => ~FracLess(lowest, score[j])
                   /\ FracLess(min, score[j]) => Len(list) = cap
  IN    /\ Len(scans') > Len(scans) =>
             Holds(scans'[Len(scans')].scored, scanner.allMarkets, scans'[Len(scans')].ref,
                   30, Frac(1, 100))
        /\ \A c \in 1..Len(computes) :
             (computes[c].pc = "events" /\ computes'[c].pc = "targetTrades") =>
               Holds(computes'[c].topRelated, computes'[c].allMarkets,
                     TargetInfo(computes[c].props), 8, Frac(5, 100))]_vars

\* C10 witness: a scan kept 30 entries and left out a market above the
\* threshold
ThirtyKeptSomeLeftOut ==
  \E s \in 1..Len(scans) :
    /\ Len(scans[s].scored) = 30
    /\ \E j \in 1..Len(scanner.allMarkets) :
         LET m == scanner.allMarkets[j]
         IN /\ m.ticker # scans[s].ref.ticker
            /\ \A k \in 1..30 : scans[s].scored[k].ticker # m.ticker
            /\ FracLess(Frac(1, 100), computeRelatedness(scans[s].ref, m).score)

\* C6: every runScan that found its reference market terminates when each
\* issued fetch settles: a scan that has not ended always awaits a fetch in
\* flight (it never blocks, also with an empty top set), every fetch of it
\* that settles lowers the number of fetches it has still to await, and the
\* step that ends it leaves scanPhase 'done' and loading false
ScanTerminates ==
  /\ [](\A s \in 1..Len(scans) :
          scans[s].pc # "done" => \E r \in inflight : r.owner = ScanOwner(s))
  /\ [][LET Settled(scan) ==
              Cardinality({k \in 1..Len(scan.outs) : "trades" \in DOMAIN scan.outs[k]})
                + Cardinality({k \in 1..Len(scan.outs) : "orderbook" \in DOMAIN scan.outs[k]})
            Remaining(scan) ==
              IF scan.pc = "done" THEN 0
              ELSE IF scan.pc = "refTrades" THEN 1 + 2 * Len(TopOf(scan.scored))
              ELSE 2 * (Len(TopOf(scan.scored)) - scan.i) - Settled(scan)
        IN \A s \in 1..Len(scans) :
             (\E r \in inflight \ inflight' : r.owner = ScanOwner(s)) =>
               /\ Remaining(scans'[s]) < Remaining(scans[s])
               /\ Remaining(scans'[s]) >= 0
               /\ (scans'[s].pc = "done" /\ mounted) =>
                    ~scanner'.loading /\ scanner'.scanPhase = "done"]_vars

\* C6 witness: a scan with an empty top set has ended in scanPhase 'done'
EmptyScanDone ==
  \E s \in 1..Len(scans) :
    /\ scans[s].scored = <<>> /\ scans[s].pc = "done"
    /\ writer.scanPhase = s /\ scanner.scanPhase = "done" /\ ~scanner.loading

\* the trades of a list are in oldest-to-newest order
OldestFirst(trades) ==
  \A i, j \in 1..Len(trades) : i < j => trades[i].created_time <= trades[j].created_time

\* C11: every trade sequence runScan passes to computeMomentum or
\* computeDivergence (the reference trades and the trades of each batch
\* result) is in oldest-to-newest order
TradesPassedOldestFirst ==
  \A s \in 1..Len(scans) :
    /\ OldestFirst(scans[s].refTrades)
    /\ \A k \in 1..Len(scans[s].outs) :
         "trades" \in DOMAIN scans[s].outs[k] => OldestFirst(scans[s].outs[k].trades)

\* the fields the scans derive
DerivedFields ==
  {"score", "reason", "spread", "spreadPct", "depth", "momentumDir", "momentumMag", "velocity",
   "divergence", "divDirection", "priceCorr"}

\* C12: no operation mutates a record obtained from upstream: allEvents is
\* the list of events as upstream sent them, allMarkets the list loadAll
\* built from them, neither changes once loaded, and no element of allMarkets,
\* of an event's markets list or of compute's market pool carries a derived
\* field (they exist only on the copies in results and related)
UpstreamRecordsUnchanged ==
  /\ [](/\ \E n \in 0..LoadAllPageCap :
             /\ scanner.allEvents = EventsUpTo(catalog, n)
             /\ scanner.allMarkets = Flatten(scanner.allEvents)
        /\ \A k \in 1..Len(scanner.allMarkets) : DOMAIN scanner.allMarkets[k] \cap DerivedFields = {}
        /\ \A e \in 1..Len(scanner.allEvents) :
             \A k \in 1..Len(MarketsOf(scanner.allEvents[e])) :
               DOMAIN MarketsOf(scanner.allEvents[e])[k] \cap DerivedFields = {}
        /\ \A c \in 1..Len(computes) :
             \A k \in 1..Len(computes[c].allMarkets) :
               DOMAIN computes[c].allMarkets[k] \cap DerivedFields = {})
  /\ [][loadAll.pc = "done" =>
          /\ scanner'.allMarkets = scanner.allMarkets
          /\ scanner'.allEvents = scanner.allEvents]_vars

\* C12 witness: a scan has ended with scored and enriched results while the
\* loaded universe holds the market of each result without those fields
EnrichedCopiesOnly ==
  \E s \in 1..Len(scans) :
    /\ scans[s].pc = "done"
    /\ scanner.results # <<>>
    /\ \E k \in 1..Len(scanner.results) :
         /\ {"score", "reason", "spread", "depth"} \subseteq DOMAIN scanner.results[k]
         /\ \E j \in 1..Len(scanner.allMarkets) :
              /\ scanner.allMarkets[j].ticker = scanner.results[k].ticker
              /\ DOMAIN scanner.allMarkets[j] \cap DerivedFields = {}

\* C13: pearsonCorrelation(A, B) returns null exactly when
\* min(length A, length B) < 10, and when the overlap is at least 10 and
\* the first min(length) elements of either series are all equal it returns
\* exactly 0
PearsonNullAndZeroVariance ==
  (call.fn = "pearsonCorrelation" /\ ~call.outcome.threw) =>
    LET a == call.args[1][1]
        b == call.args[2][1]
        n == Min(Len(a), Len(b))
        Constant(s) == \A i \in 1..n : s[i] = s[1]
    IN /\ (call.outcome.value = None) <=> (n < 10)
       /\ (n >= 10 /\ (Constant(a) \/ Constant(b))) => call.outcome.value = Some(DZero)

\* C14: pearsonCorrelation(A, A) = 1 for every non-constant A of length at
\* least 10, and for an overlap of at least 10 the result lies in [-1, 1]
\* and is the result for the first min(length A, length B) elements of each
\* series
PearsonSelfAndRange ==
  (call.fn = "pearsonCorrelation" /\ ~call.outcome.threw /\ call.outcome.value # None) =>
    LET a == call.args[1][1]
        b == call.args[2][1]
        n == Min(Len(a), Len(b))
        r == call.outcome.value[1]
    IN /\ (a = b /\ \E i \in 1..n : a[i] # a[1]) => r = DFromInt(1)
       /\ ~DLess(DFromInt(1), r)
       /\ ~DLess(r, DFromInt(-1))
       /\ call.outcome.value = pearsonCorrelation(slice0(a, n), slice0(b, n))

\* C15: normalizeSeries(P) has the length of P and values in [0, 100], the
\* minimum of P maps to 0 and the maximum to 100, a constant P gives 50
\* everywhere, and the empty sequence gives the empty sequence
NormalizedRange ==
  (call.fn = "normalizeSeries" /\ ~call.outcome.threw) =>
    LET P == call.args[1][1]
        out == call.outcome.value
        constant == \A i \in 1..Len(P) : P[i] = P[1]
    IN /\ Len(out) = Len(P)
       /\ \A i \in 1..Len(out) :
            /\ ~FracLess(out[i], Frac(0, 1))
            /\ ~FracLess(Frac(100, 1), out[i])
            /\ out[i].d > 0
            /\ constant => out[i] = Frac(50, 1)
            /\ (~constant /\ \A j \in 1..Len(P) : P[i] <= P[j]) => FracEq(out[i], Frac(0, 1))
            /\ (~constant /\ \A j \in 1..Len(P) : P[j] <= P[i]) => FracEq(out[i], Frac(100, 1))
       /\ P = <<>> => out = <<>>

\* C15 witness: a series that is not constant has been normalized to values
\* that include 0, 100 and one strictly between them
NormalizedSpread ==
  /\ call.fn = "normalizeSeries" /\ ~call.outcome.threw
  /\ \E i, j, k \in 1..Len(call.outcome.value) :
       /\ FracEq(call.outcome.value[i], Frac(0, 1))
       /\ FracEq(call.outcome.value[j], Frac(100, 1))
       /\ FracLess(Frac(0, 1), call.outcome.value[k])
       /\ FracLess(call.outcome.value[k], Frac(100, 1))

\* the keywords computeRelatedness extracts from one market record
TitleKeywords(m) == extractKeywords(TextOf(m, "title") \o <<" ">> \o TextOf(m, "event_title"))

\* C16: for a target with a non-empty event_ticker and a candidate with the
\* same event_ticker, computeRelatedness returns the reason 'SAME EVENT' and
\* a score of at least 0.8, in both argument orders, whatever the titles and
\* prices; otherwise the reason is 'TOPIC n%' when the keyword similarity of
\* the two records is above 0, and the empty string when it is 0
SameEventTakesPriority ==
  (call.fn = "computeRelatedness" /\ ~call.outcome.threw) =>
    LET target == call.args[1][1]
        candidate == call.args[2][1]
        out == call.outcome.value
        swapped == computeRelatedness(candidate, target)
        kwSim == keywordSimilarity(TitleKeywords(target), TitleKeywords(candidate))
    IN IF /\ TextOf(target, "event_ticker") # <<>>
          /\ FieldOf(candidate, "event_ticker") = Some(target.event_ticker)
       THEN /\ out.reason = [kind |-> "SAME EVENT"]
            /\ ~FracLess(out.score, Frac(8, 10))
            /\ swapped.reason = [kind |-> "SAME EVENT"]
            /\ ~FracLess(swapped.score, Frac(8, 10))
       ELSE /\ kwSim.n > 0 => out.reason.kind = "TOPIC" /\ out.reason.pct = Percent(kwSim)
            /\ kwSim.n = 0 => out.reason = [kind |-> ""]

\* C16 witness: two markets of one event whose titles share keywords have
\* been scored, so a topic reason was available and 'SAME EVENT' was kept
SameEventWithSharedTopic ==
  /\ call.fn = "computeRelatedness" /\ ~call.outcome.threw
  /\ TextOf(call.args[1][1], "event_ticker") = <<"K", "X", "F", "E", "D">>
  /\ TextOf(call.args[2][1], "event_ticker") = <<"K", "X", "F", "E", "D">>
  /\ call.args[1] # call.args[2]
  /\ keywordSimilarity(TitleKeywords(call.args[1][1]), TitleKeywords(call.args[2][1])).n > 0
  /\ call.outcome.value.reason = [kind |-> "SAME EVENT"]

\* C17: for every pair of market records (last_price absent or a price in
\* cents, 0..100) the score of computeRelatedness is at least 0 and at most
\* 1.5, and the price-proximity term is never below 0
ScoreWithinRange ==
  (call.fn = "computeRelatedness" /\ ~call.outcome.threw) =>
    LET target == call.args[1][1]
        candidate == call.args[2][1]
        score == call.outcome.value.score
        unpriced == computeRelatedness([f \in DOMAIN target \ {"last_price"} |-> target[f]],
                                       [f \in DOMAIN candidate \ {"last_price"} |-> candidate[f]]).score
    IN /\ score.d > 0
       /\ ~FracLess(score, Frac(0, 1))
       /\ ~FracLess(Frac(15, 10), score)
       /\ ~FracLess(score, unpriced)

\* C17 witness: two unrelated markets priced at the two ends of the range, 0
\* and 100, have been scored: the price-proximity term is at its lowest and
\* the score is 0
OppositePricesScored ==
  /\ call.fn = "computeRelatedness" /\ ~call.outcome.threw
  /\ FieldOf(call.args[1][1], "last_price") = Some(0)
  /\ FieldOf(call.args[2][1], "last_price") = Some(100)
  /\ call.outcome.value.score = Frac(0, 1)

\* the symmetry of both functions and the range of keywordSimilarity, the
\* part of C18 that does not depend on how two empty lists are read
SymmetricAndBounded ==
  /\ (call.fn = "computeRelatedness" /\ ~call.outcome.threw) =>
       call.outcome.value = computeRelatedness(call.args[2][1], call.args[1][1])
  /\ (call.fn = "keywordSimilarity" /\ call.args[1] # None /\ call.args[2] # None) =>
       LET X == call.args[1][1]
           Y == call.args[2][1]
           out == call.outcome.value
       IN /\ ~call.outcome.threw
          /\ out = keywordSimilarity(Y, X)
          /\ out.d > 0
          /\ ~FracLess(out, Frac(0, 1))
          /\ ~FracLess(Frac(1, 1), out)
          /\ (X = <<>> \/ Y = <<>>) => FracEq(out, Frac(0, 1))

\* C18 as stated: computeRelatedness(A, B) and computeRelatedness(B, A)
\* return the same score and reason; keywordSimilarity(X, Y) equals
\* keywordSimilarity(Y, X), lies in [0, 1], is 0 when either list is empty,
\* and is 1 exactly when both lists contain the same set of words
SymmetricAndOneIffSameWords ==
  /\ SymmetricAndBounded
  /\ (call.fn = "keywordSimilarity" /\ call.args[1] # None /\ call.args[2] # None) =>
       (FracEq(call.outcome.value, Frac(1, 1)) <=> Range(call.args[1][1]) = Range(call.args[2][1]))

\* C18, amended: as stated, with keywordSimilarity being 1 exactly when both
\* lists are non-empty and contain the same set of words
SymmetricAndOneIffSameNonEmptyWords ==
  /\ SymmetricAndBounded
  /\ (call.fn = "keywordSimilarity" /\ call.args[1] # None /\ call.args[2] # None) =>
       (FracEq(call.outcome.value, Frac(1, 1)) <=>
          /\ call.args[1][1] # <<>>
          /\ Range(call.args[1][1]) = Range(call.args[2][1]))

\* C18 witness: two different keyword lists with the same set of words have
\* been compared and the similarity is 1
SameWordsDifferentLists ==
  /\ call.fn = "keywordSimilarity" /\ ~call.outcome.threw
  /\ call.args[1] # None /\ call.args[2] # None
  /\ call.args[1] # call.args[2]
  /\ Range(call.args[1][1]) = Range(call.args[2][1])
  /\ FracEq(call.outcome.value, Frac(1, 1))

\* the maximal runs of [a-z0-9] of s, each as <<first, last>>
AlnumRuns(s) ==
  LET alnum == Range(LowerChars) \cup Range(DigitChars)
  IN {r \in (1..Len(s)) \X (1..Len(s)) :
        /\ r[1] <= r[2]
        /\ \A i \in r[1]..r[2] : s[i] \in alnum
        /\ r[1] > 1 => s[r[1] - 1] \notin alnum
        /\ r[2] < Len(s) => s[r[2] + 1] \notin alnum}

\* C19: extractKeywords returns, in order of occurrence and with duplicates
\* kept, exactly the maximal runs of [a-z0-9] of the lower-cased text that
\* are longer than 2 characters and are no stop words; empty or absent text
\* gives the empty sequence; 'The Fed Will Raise Rates' gives fed, raise, rates
KeywordsAreFilteredRuns ==
  (call.fn = "extractKeywords") =>
    LET text == IF call.args[1] = None THEN <<>> ELSE call.args[1][1]
        lower == toLowerCase(text)
        out == call.outcome.value
        kept == {r \in AlnumRuns(lower) :
                   r[2] - r[1] + 1 > 2 /\ SubSeq(lower, r[1], r[2]) \notin STOP_WORDS}
    IN /\ ~call.outcome.threw
       /\ Len(out) = Cardinality(kept)
       /\ \A r \in kept :
            out[Cardinality({q \in kept : q[1] < r[1]}) + 1] = SubSeq(lower, r[1], r[2])
       /\ \A k \in 1..Len(out) :
            /\ Len(out[k]) > 2
            /\ out[k] \notin STOP_WORDS
            /\ \A i \in 1..Len(out[k]) : out[k][i] \in Range(LowerChars) \cup Range(DigitChars)
       /\ text = <<>> => out = <<>>
       /\ text = <<"T", "h", "e", " ", "F", "e", "d", " ", "W", "i", "l", "l", " ", "R", "a", "i", "s", "e", " ", "R", "a", "t", "e", "s">>
            => out = <<<<"f", "e", "d">>, <<"r", "a", "i", "s", "e">>, <<"r", "a", "t", "e", "s">>>>

\* C19 witness: a text with upper case, punctuation, a stop word and a
\* repeated word has been tokenised, and the repeated word is returned twice
RepeatedKeywordKept ==
  /\ call.fn = "extractKeywords" /\ ~call.outcome.threw
  /\ \E i, j \in 1..Len(call.outcome.value) : i < j /\ call.outcome.value[i] = call.outcome.value[j]
  /\ \E i \in 1..Len(call.args[1][1]) : call.args[1][1][i] \in Range(UpperChars)
  /\ <<"p", "e", "r">> \in Range(splitSpaces(StripPunctuation(toLowerCase(call.args[1][1]))))

\* C20: computeSpread returns null without an order book; otherwise bestBid
\* is the price of the first yes level (null if there is none), bestAsk is
\* 100 minus the price of the first no level (null if there is none) and
\* depth is the number of levels of both sides; with bestBid or bestAsk
\* null, spread, spreadPct and midpoint are null; with both defined,
\* spread = bestAsk - bestBid, midpoint = (bestBid + bestAsk) / 2 and
\* spreadPct = spread / midpoint * 100, or 0 when the midpoint is 0
SpreadOfFirstLevels ==
  (call.fn = "computeSpread") =>
    LET orderbook == call.args[1]
        out == call.outcome.value
        Book(yes, no, r) ==
          /\ r.bestBid = (IF yes = <<>> THEN None ELSE Some(yes[1][1]))
          /\ r.bestAsk = (IF no = <<>> THEN None ELSE Some(100 - no[1][1]))
          /\ r.depth = Len(yes) + Len(no)
          /\ (yes = <<>> \/ no = <<>>) =>
               r.spread = None /\ r.spreadPct = None /\ r.midpoint = None
          /\ (yes # <<>> /\ no # <<>>) =>
               LET bid == yes[1][1]
                   ask == 100 - no[1][1]
               IN /\ r.spread = Some(ask - bid)
                  /\ r.midpoint # None /\ r.midpoint[1].d > 0
                  /\ FracEq(r.midpoint[1], Frac(bid + ask, 2))
                  /\ r.spreadPct # None /\ r.spreadPct[1].d > 0
                  /\ IF bid + ask = 0 THEN FracEq(r.spreadPct[1], Frac(0, 1))
                     ELSE FracEq(r.spreadPct[1], Frac((ask - bid) * 2 * 100, bid + ask))
    IN /\ ~call.outcome.threw
       /\ orderbook = None <=> out = None
       /\ orderbook # None =>
            Book(Levels(orderbook[1], "yes"), Levels(orderbook[1], "no"), out[1])

\* C20 witness: the order book yes [[45, 100]], no [[40, 50]] has been
\* evaluated: bid 45, ask 60, spread 15, midpoint 52.5, two levels
ExampleBookQuoted ==
  /\ call.fn = "computeSpread"
  /\ call.args[1] = Some([yes |-> <<<<45, 100>>>>, no |-> <<<<40, 50>>>>])
  /\ call.outcome.value # None
  /\ call.outcome.value[1].bestBid = Some(45)
  /\ call.outcome.value[1].bestAsk = Some(60)
  /\ call.outcome.value[1].spread = Some(15)
  /\ FracEq(call.outcome.value[1].midpoint[1], Frac(525, 10))
  /\ call.outcome.value[1].depth = 2

(***************************************************************************)
(* computeMomentum                                                         *)
(***************************************************************************)
\* the mean of a non-empty list of prices, as a double
MeanPrice(prices) == DDiv(DSum(Doubles(prices)), DFromInt(Len(prices)))

\* tenths is the double x rounded to one decimal: x * 10 lies in
\* [tenths.n - 1/2, tenths.n + 1/2)
IsRoundedToTenth(tenths, x) ==
  LET Off(d) == ~DLess(d, Decimal(-1, 2)) /\ DLess(d, Decimal(1, 2))
  IN tenths.d = 10 /\ Off(DSub(DMul(x, DFromInt(10)), DFromInt(tenths.n)))

\* what the claim says of one call computeMomentum(trades) that returned r
MomentumRule(trades, r) ==
  LET Halves(m, recentAvg, olderAvg) ==
        /\ m.direction \in {"UP", "DOWN", "FLAT"}
        /\ m.direction = "UP" <=> DLess(DFromInt(1), DSub(recentAvg, olderAvg))
        /\ m.direction = "DOWN" <=> DLess(DFromInt(1), DSub(olderAvg, recentAvg))
        /\ IsRoundedToTenth(m.magnitude, DAbs(DSub(recentAvg, olderAvg)))
        /\ m.tradeCount = Len(trades[1])
      Of(m, prices, half) ==
        Halves(m, MeanPrice(SubSeq(prices, 1, half)), MeanPrice(SubSeq(prices, half + 1, Len(prices))))
  IN /\ r = None <=> (trades = None \/ Len(trades[1]) < 4)
     /\ r # None => Of(r[1], Prices(trades[1]), Len(trades[1]) \div 2)

ExampleTrades == Some(Yes(<<70, 68, 65, 60, 55, 50>>))

MomentumExample(tenths) ==
  (call.fn = "computeMomentum" /\ call.args = <<ExampleTrades>>)
    => /\ call.outcome.value # None
       /\ call.outcome.value[1].direction = "UP"
       /\ call.outcome.value[1].magnitude = Frac(tenths, 10)

TradeCount(trades) == IF trades = None THEN 0 ELSE Len(trades[1])

\* mean(first 3 prices) - mean(last 3 prices) of a list of at least 3 trades
DeltaOf(trades) ==
  LET Of(prices) == DSub(MeanPrice(SubSeq(prices, 1, 3)),
                         MeanPrice(SubSeq(prices, Len(prices) - 2, Len(prices))))
  IN Of(Prices(trades))

\* the label the decision table of the claim gives two deltas
DivergenceLabel(tDelta, cDelta) ==
  LET one == DFromInt(1)
      Apart == DLess(DFromInt(3), DAbs(DSub(tDelta, cDelta)))
  IN IF DLess(one, tDelta) /\ DLess(cDelta, DNeg(one)) THEN "TARGET UP / MATCH DOWN"
     ELSE IF DLess(tDelta, DNeg(one)) /\ DLess(one, cDelta) THEN "TARGET DOWN / MATCH UP"
     ELSE IF DLess(one, tDelta) /\ DLess(one, cDelta) /\ Apart THEN "BOTH UP (DIVERGING)"
     ELSE IF DLess(tDelta, DNeg(one)) /\ DLess(cDelta, DNeg(one)) /\ Apart THEN "BOTH DOWN (DIVERGING)"
     ELSE "NEUTRAL"

PricedAt(markets) ==
  IF markets = None THEN {}
  ELSE {i \in 1..Len(markets[1]) : "last_price" \in DOMAIN markets[1][i] /\ markets[1][i].last_price > 0}

RECURSIVE TotalAt(_, _)
TotalAt(markets, at) ==
  IF at = {} THEN 0
  ELSE LET i == CHOOSE j \in at : TRUE IN markets[i].last_price + TotalAt(markets, at \ {i})

\* what the claim says of one call detectArbitrage(markets) that returned r
ArbitrageRule(markets, r) ==
  LET Of(a, total) ==
        /\ FracEq(a.totalImpliedPct, Frac(total, 1))
        /\ FracEq(a.overround, Frac(total - 100, 1))
        /\ a.marketCount = Cardinality(PricedAt(markets))
        /\ a.isMispriced <=> (total - 100 > 15 \/ 100 - total > 15)
        /\ total = 100 => FracEq(a.overround, Frac(0, 1)) /\ ~a.isMispriced
        /\ total = 120 => FracEq(a.overround, Frac(20, 1)) /\ a.isMispriced
        /\ total \in {85, 115} => ~a.isMispriced
  IN /\ r = None <=> Cardinality(PricedAt(markets)) < 2
     /\ r # None => Of(r[1], TotalAt(markets[1], PricedAt(markets)))

SORT_OPTIONS == {"score", "divergence", "spreadPct", "momentum", "volume"}

\* va / vb of the comparator, for the entry r and the sort key
SortValue(r, key) ==
  CASE key = "score" -> IF "score" \in DOMAIN r THEN r.score ELSE Frac(0, 1)
    [] key = "divergence" -> IF "divergence" \in DOMAIN r THEN r.divergence ELSE Frac(0, 1)
    [] key = "spreadPct" -> IF "spreadPct" \in DOMAIN r /\ r.spreadPct # None THEN r.spreadPct[1]
                            ELSE Frac(999, 1)
    [] key = "momentum" -> IF "velocity" \in DOMAIN r THEN Frac(Abs(r.velocity.n), r.velocity.d)
                           ELSE Frac(0, 1)
    [] key = "volume" -> IF "volume" \in DOMAIN r THEN Frac(r.volume, 1) ELSE Frac(0, 1)
    [] OTHER -> Frac(0, 1)

\* sorted with the comparator of the direction 'asc', whatever sortDir
SortedResultsAlwaysAscending(s) ==
  LET n == Len(s.results)
      V(i) == SortValue(s.results[i], s.sortKey)
      Before(i, j) == FracLess(V(i), V(j))
      Rank(i) == Cardinality({j \in 1..n : Before(j, i) \/ (~Before(i, j) /\ j < i)}) + 1
      ordered == [k \in 1..n |-> s.results[CHOOSE i \in 1..n : Rank(i) = k]]
  IN SelectSeq(ordered, LAMBDA r : ~FracLess(r.score, s.minScore))

\* const sorted = [...results].sort(compare).filter(r => r.score >= minScore)
\* for the state s of the Scanner; Array.prototype.sort is stable
SortedResults(s) ==
  LET n == Len(s.results)
      V(i) == SortValue(s.results[i], s.sortKey)
      Before(i, j) == IF s.sortDir = "desc" THEN FracLess(V(j), V(i)) ELSE FracLess(V(i), V(j))
      Rank(i) == Cardinality({j \in 1..n : Before(j, i) \/ (~Before(i, j) /\ j < i)}) + 1
      ordered == [k \in 1..n |-> s.results[CHOOSE i \in 1..n : Rank(i) = k]]
  IN SelectSeq(ordered, LAMBDA r : ~FracLess(r.score, s.minScore))

\* onClick of a button of the sort row, which is rendered while there are
\* results
ClickSort(key) ==
  /\ route = "Scanner" /\ mounted
  /\ Len(scanner.results) > 0
  /\ scanner' = IF scanner.sortKey = key
                THEN [scanner EXCEPT !.sortDir = IF scanner.sortDir = "desc" THEN "asc" ELSE "desc"]
                ELSE [scanner EXCEPT !.sortKey = key, !.sortDir = "desc"]
  /\ UNCHANGED <<world, pageVars, chartVars, fetchAll, mounted, inflight, loadAll, scans, writer, lateCalls>>

\* the positions of the MIN SCORE slider that are tried
SliderInputs == {0, 25, 50, 90, 100}

\* onChange of the MIN SCORE slider at position v of 0..100
SetMinScore(v) ==
  /\ route = "Scanner" /\ mounted
  /\ Len(scanner.results) > 0
  /\ scanner' = [scanner EXCEPT !.minScore = Frac(v, 100)]
  /\ UNCHANGED <<world, pageVars, chartVars, fetchAll, mounted, inflight, loadAll, scans, writer, lateCalls>>

\* results of finished scans: entries of the top of the list carry the
\* statistics their trades and order book allowed, the others none
ResultInputs == {
  <<[ticker |-> <<"A">>, score |-> Frac(9, 10), reason |-> "SAME EVENT", volume |-> 500,
     spread |-> Some(15), spreadPct |-> Some(Frac(3000, 105)), depth |-> 2,
     momentumDir |-> "UP", momentumMag |-> Frac(127, 10), velocity |-> Frac(-411, 100),
     divergence |-> Frac(40, 10), divDirection |-> "BOTH UP (DIVERGING)"],
    [ticker |-> <<"B">>, score |-> Frac(9, 10), reason |-> "SAME EVENT", volume |-> 900,
     spread |-> None, spreadPct |-> None, depth |-> 1,
     momentumDir |-> "FLAT", momentumMag |-> Frac(3, 10), velocity |-> Frac(10, 100)],
    [ticker |-> <<"C">>, score |-> Frac(1, 2), reason |-> "TOPIC 67%",
     spread |-> Some(2), spreadPct |-> Some(Frac(400, 98)), depth |-> 5,
     divergence |-> Frac(0, 10), divDirection |-> "NEUTRAL"],
    [ticker |-> <<"D">>, score |-> Frac(1, 4), reason |-> "TOPIC 25%", volume |-> 0,
     velocity |-> Frac(600, 100), momentumDir |-> "DOWN", momentumMag |-> Frac(180, 10)],
    [ticker |-> <<"E">>, score |-> Frac(1, 10), reason |-> "", volume |-> 40]>>,
  <<[ticker |-> <<"A">>, score |-> Frac(1, 1), reason |-> "SAME EVENT", volume |-> 7],
    [ticker |-> <<"B">>, score |-> Frac(1, 1), reason |-> "SAME EVENT", volume |-> 7],
    [ticker |-> <<"C">>, score |-> Frac(2, 100), reason |-> ""]>>,
  <<[ticker |-> <<"A">>, score |-> Frac(1, 2), reason |-> "TOPIC 50%",
     spread |-> Some(0), spreadPct |-> Some(Frac(0, 1)), depth |-> 2,
     velocity |-> Frac(-25, 100), momentumDir |-> "FLAT", momentumMag |-> Frac(5, 10),
     divergence |-> Frac(137, 10), divDirection |-> "TARGET UP / MATCH DOWN"]>> }

\* the markets the entries of a result list were made from
ScannedMarkets(results) ==
  [i \in 1..Len(results) |->
     [f \in DOMAIN results[i] \cap {"ticker", "volume"} |-> results[i][f]]]

\* SpecSort: the Scanner after a scan has finished, the user working the
\* sort row
InitSort ==
  /\ catalog = "small"
  /\ PagesIdle
  /\ failing = [trades |-> {}, orderbook |-> {}]
  /\ call = NoCall
  /\ route = "Scanner"
  /\ mounted = TRUE
  /\ inflight = {}
  /\ \E results \in ResultInputs :
       scanner = [ScannerInitial EXCEPT !.refTicker = <<"r">>,
                                        !.refMarket = Some([ticker |-> <<"R">>]),
                                        !.allMarkets = <<[ticker |-> <<"R">>]>> \o ScannedMarkets(results),
                                        !.results = results, !.scanPhase = "done",
                                        !.status = [msg |-> "Scan complete", found |-> Len(results)]]
  /\ loadAll = [LoadAllIdle EXCEPT !.pc = "done"]
  /\ scans = <<>> /\ writer = WriterNone
  /\ props = None /\ chart = ChartInitial /\ computes = <<>>
  /\ fetchAll = FetchAllIdle
  /\ lateCalls = {}

NextSort ==
  \/ \E key \in SORT_OPTIONS : ClickSort(key)
  \/ \E v \in SliderInputs : SetMinScore(v)

SpecSort == InitSort /\ [][NextSort]_vars

\* how often the entry r occurs in the list
Occurrences(r, list) == Cardinality({i \in 1..Len(list) : list[i] = r})

\* the value the claim sorts the entry r by
ClaimedSortValue(r, key) ==
  LET Or(f, missing) == IF f \in DOMAIN r /\ r[f] # None THEN r[f] ELSE missing
      Magnitude(x) == IF x.n < 0 THEN Frac(-x.n, x.d) ELSE x
  IN IF key = "score" THEN r.score
     ELSE IF key = "divergence" THEN Or("divergence", Frac(0, 1))
     ELSE IF key = "momentum" THEN Magnitude(Or("velocity", Frac(0, 1)))
     ELSE IF key = "volume" THEN (IF "volume" \in DOMAIN r THEN Frac(r.volume, 1) ELSE Frac(0, 1))
     ELSE IF "spreadPct" \in DOMAIN r /\ r.spreadPct # None THEN r.spreadPct[1]
     ELSE Frac(999, 1)

\* the displayed list is a permutation of the results with score >= minScore,
\* in the order of the selected key and direction
DisplayedIsSortedFilter ==
  LET shown == SortedResults(scanner)
      V(k) == ClaimedSortValue(shown[k], scanner.sortKey)
  IN /\ \A r \in Range(scanner.results) :
          Occurrences(r, shown) = IF FracLess(r.score, scanner.minScore) THEN 0
                                  ELSE Occurrences(r, scanner.results)
     /\ Range(shown) \subseteq Range(scanner.results)
     /\ \A k \in 1..(Len(shown) - 1) :
          IF scanner.sortDir = "desc" THEN ~FracLess(V(k), V(k + 1)) ELSE ~FracLess(V(k + 1), V(k))

\* a click on the active key flips the direction, a click on another key
\* selects it with 'desc'; no control of the sort row changes results
SortRowStep ==
  /\ \A key \in SORT_OPTIONS :
       ClickSort(key) =>
         /\ scanner'.sortKey = key
         /\ scanner'.sortDir = IF scanner.sortKey # key THEN "desc"
                               ELSE IF scanner.sortDir = "desc" THEN "asc" ELSE "desc"
  /\ (scanner'.sortKey # scanner.sortKey \/ scanner'.sortDir # scanner.sortDir
        \/ scanner'.minScore # scanner.minScore) => scanner'.results = scanner.results

\* C24: the displayed list is a permutation of exactly the results entries
\* with score >= minScore, ordered by the selected sort key and direction
\* (a missing divergence, velocity or volume counts as 0, a missing spreadPct
\* as 999, momentum sorts by |velocity|); changing the sort key, the
\* direction or minScore never changes results; clicking the active key
\* flips the direction and clicking another key selects it with 'desc'
DisplayedListSortedAndFiltered == []DisplayedIsSortedFilter /\ [][SortRowStep]_vars

\* four of five results are displayed by ascending spread, the two without a
\* spread last
SortedBySpreadAscending ==
  /\ scanner.sortKey = "spreadPct" /\ scanner.sortDir = "asc" /\ scanner.minScore = Frac(25, 100)
  /\ Len(scanner.results) = 5
  /\ [k \in 1..Len(SortedResults(scanner)) |-> SortedResults(scanner)[k].ticker]
       = <<<<"C">>, <<"A">>, <<"B">>, <<"D">>>>

(***************************************************************************)
(* MarketTable (components/MarketTable.jsx)                                *)
(***************************************************************************)
PARLAY_PREFIXES == {<<"K", "X", "M", "V", "E", "S", "P", "O", "R", "T", "S", "M", "U", "L", "T", "I", "G", "A", "M", "E">>,
                    <<"K", "X", "M", "V", "E", "N", "B", "A", "S", "I", "N", "G", "L", "E", "G", "A", "M", "E">>}

SportsWords == {
   <<"n", "b", "a">>, <<"n", "f", "l">>, <<"n", "h", "l">>, <<"m", "l", "b">>,
   <<"s", "p", "o", "r", "t">>, <<"g", "a", "m", "e">>, <<"s", "c", "o", "r", "e">>,
   <<"p", "o", "i", "n", "t">>, <<"t", "o", "u", "c", "h", "d", "o", "w", "n">>,
   <<"r", "e", "b", "o", "u", "n", "d">> }

PoliticsWords == {
   <<"p", "r", "e", "s", "i", "d", "e", "n", "t">>, <<"s", "e", "n", "a", "t", "e">>,
   <<"c", "o", "n", "g", "r", "e", "s", "s">>, <<"e", "l", "e", "c", "t">>,
   <<"g", "o", "v", "e", "r", "n", "o", "r">>, <<"p", "o", "l", "i", "t", "i", "c">>,
   <<"t", "r", "u", "m", "p">>, <<"b", "i", "d", "e", "n">>, <<"p", "a", "r", "t", "y">>,
   <<"v", "o", "t", "e">>, <<"s", "p", "e", "a", "k", "e", "r">>, <<"l", "e", "a", "d", "e", "r">>,
   <<"g", "7">> }

FinanceWords == {
   <<"s", "&", "p">>, <<"n", "a", "s", "d", "a", "q">>, <<"s", "t", "o", "c", "k">>,
   <<"i", "n", "d", "e", "x">>, <<"f", "e", "d", " ">>, <<"r", "a", "t", "e">>,
   <<"i", "n", "f", "l", "a", "t", "i", "o", "n">>, <<"g", "d", "p">>,
   <<"u", "n", "e", "m", "p", "l", "o", "y", "m", "e", "n", "t">>, <<"i", "p", "o">>,
   <<"m", "a", "r", "k", "e", "t", " ", "s", "h", "a", "r", "e">>,
   <<"e", "v", " ", "s", "h", "a", "r", "e">>, <<"b", "i", "t", "c", "o", "i", "n">>,
   <<"c", "r", "y", "p", "t", "o">> }

ScienceWords == {
   <<"m", "a", "r", "s">>, <<"f", "u", "s", "i", "o", "n">>, <<"c", "l", "i", "m", "a", "t", "e">>,
   <<"e", "a", "r", "t", "h", "q", "u", "a", "k", "e">>, <<"v", "o", "l", "c", "a", "n", "o">>,
   <<"f", "d", "a">>, <<"c", "u", "r", "e">>, <<"a", "i", " ">>, <<"r", "o", "b", "o", "t">> }

\* String.prototype.startsWith
startsWith(s, t) == Len(t) <= Len(s) /\ SubSeq(s, 1, Len(t)) = t

\* categorizeEvent(ticker, title): each regular expression is an alternation
\* of plain words, tested on the lower-cased text
categorizeEvent(ticker, title) ==
  LET t == toLowerCase(ticker \o <<" ">> \o title)
      Has(words) == \E w \in words : includes(t, w)
  IN IF \E p \in PARLAY_PREFIXES : startsWith(ticker, p) THEN "sports"
     ELSE IF Has(SportsWords) THEN "sports"
     ELSE IF Has(PoliticsWords) THEN "politics"
     ELSE IF Has(FinanceWords) THEN "finance"
     ELSE IF Has(ScienceWords) THEN "science"
     ELSE "culture"

\* the markets of the events, each tagged with its event and its category
RECURSIVE FlattenCategorized(_)
FlattenCategorized(evts) ==
  IF evts = <<>> THEN <<>>
  ELSE LET ev == Head(evts)
           cat == categorizeEvent(TextOf(ev, "event_ticker"), TextOf(ev, "title"))
           ms == MarketsOf(ev)
       IN [i \in 1..Len(ms) |-> WithFields(Tagged(ms[i], ev), [category |-> cat])]
          \o FlattenCategorized(Tail(evts))

MaxTableLoads == 4

\* a loadMarkets(append, nextCursor) invocation at its await
TableLoadStart(append, nextCursor) == [append |-> append, cursor |-> nextCursor, pc |-> "waiting"]

\* loadMarkets up to its await: lines 45-50
loadMarkets(append, nextCursor) ==
  /\ table' = [table EXCEPT !.loading = TRUE, !.error = None]
  /\ tableLoads' = Append(tableLoads, TableLoadStart(append, nextCursor))

\* the interval of the second effect fires
TablePoll ==
  /\ route = "MarketTable" /\ mounted
  /\ Len(tableLoads) < MaxTableLoads
  /\ loadMarkets(FALSE, None)
  /\ UNCHANGED <<world, mounted, inflight, scannerVars, chartVars, fetchAll, lateCalls, detail, detailLoads>>

\* onClick of [LOAD MORE], rendered when !loading && cursor
LoadMore ==
  /\ route = "MarketTable" /\ mounted
  /\ ~table.loading /\ table.cursor # None
  /\ Len(tableLoads) < MaxTableLoads
  /\ loadMarkets(TRUE, table.cursor)
  /\ UNCHANGED <<world, mounted, inflight, scannerVars, chartVars, fetchAll, lateCalls, detail, detailLoads>>

\* loadMarkets l resumes with the response of fetchEvents: lines 51-69 and
\* the finally block.  pages records, per chunk of markets, the upstream
\* page it came from and the cursor that came with it
TableLoadOk(l, next) ==
  LET load == tableLoads[l]
      k == PageOf(load.cursor)
      data == EventsBody(catalog, k, next)
      flattened == FlattenCategorized(EventsOf(data))
      chunk == [page |-> k, cursor |-> CursorOf(data)]
  IN /\ route = "MarketTable"
     /\ load.pc = "waiting"
     /\ tableLoads' = [tableLoads EXCEPT ![l].pc = "done"]
     /\ table' = IF mounted
                 THEN [table EXCEPT
                         !.markets = IF load.append THEN @ \o flattened ELSE flattened,
                         !.pages = IF load.append THEN Append(@, chunk) ELSE <<chunk>>,
                         !.cursor = CursorOf(data),
                         !.loading = FALSE]
                 ELSE table
     /\ UNCHANGED <<world, mounted, inflight, scannerVars, chartVars, fetchAll, lateCalls, detail, detailLoads>>

\* loadMarkets l resumes with the rejection of fetchEvents: the catch and the
\* finally block
TableLoadFail(l) ==
  /\ route = "MarketTable"
  /\ tableLoads[l].pc = "waiting"
  /\ tableLoads' = [tableLoads EXCEPT ![l].pc = "done"]
  /\ table' = IF mounted THEN [table EXCEPT !.error = Some("Failed to fetch"), !.loading = FALSE]
              ELSE table
  /\ UNCHANGED <<world, mounted, inflight, scannerVars, chartVars, fetchAll, lateCalls, detail, detailLoads>>

\* the page is left: the cleanup clears the interval
UnmountTable ==
  /\ route = "MarketTable" /\ mounted
  /\ mounted' = FALSE
  /\ UNCHANGED <<world, inflight, scannerVars, chartVars, fetchAll, lateCalls, pageVars>>

\* MarketTable after its first render and its effects: the list is emptied
\* and loadMarkets(false, null) is at its await
InitTable ==
  /\ route = "MarketTable"
  /\ mounted = TRUE
  /\ table = TableInitial
  /\ tableLoads = <<TableLoadStart(FALSE, None)>>
  /\ detail = DetailInitial /\ detailLoads = <<>>

(***************************************************************************)
(* MarketDetail (src/unnamed/part_000)                                     *)
(***************************************************************************)
MaxDetailLoads == 3

DetailTickers == {<<"K", "X", "F", "E", "D", "-", "1">>, <<"K", "X", "P", "O", "P", "E", "-", "1">>}

\* the effect instance of load l has run its cleanup: cancelled is true
Cancelled(load) == ~mounted \/ load.effect # detail.effect

\* a load() invocation of effect instance e at its await; asked is its place
\* in the order of the loads
DetailLoadStart(e, ticker, asked) ==
  [effect |-> e, ticker |-> ticker, asked |-> asked, pc |-> "waiting", sawCancelled |-> FALSE]

\* the three responses of load: upstream's market, order book and trades as
\* of the moment the load asked
DetailResponse(load) ==
  LET row == RowOf(catalog, load.ticker)
  IN [market |-> Some(WithFields(row.market, [as_of |-> load.asked])),
      orderbook |-> row.orderbook,
      trades |-> IF row.trades = None THEN <<>> ELSE row.trades[1]]

\* load() up to its await, called by the interval of the live effect
DetailPoll ==
  /\ route = "MarketDetail" /\ mounted
  /\ Len(detailLoads) < MaxDetailLoads
  /\ detail' = [detail EXCEPT !.loading = TRUE, !.error = None]
  /\ detailLoads' = Append(detailLoads, DetailLoadStart(detail.effect, detail.ticker, Len(detailLoads) + 1))
  /\ UNCHANGED <<world, mounted, inflight, scannerVars, chartVars, fetchAll, lateCalls, table, tableLoads>>

\* the route changes to another ticker: the cleanup of the effect sets
\* cancelled and clears the interval, the new effect calls load()
DetailNavigate(ticker) ==
  /\ route = "MarketDetail" /\ mounted
  /\ ticker # detail.ticker
  /\ Len(detailLoads) < MaxDetailLoads
  /\ detail' = [detail EXCEPT !.ticker = ticker, !.effect = @ + 1, !.loading = TRUE, !.error = None]
  /\ detailLoads' = Append(detailLoads, DetailLoadStart(detail.effect + 1, ticker, Len(detailLoads) + 1))
  /\ UNCHANGED <<world, mounted, inflight, scannerVars, chartVars, fetchAll, lateCalls, table, tableLoads>>

\* load l resuming without the test of cancelled
DetailLoadOkNoCancelTest(l) ==
  LET load == detailLoads[l]
      res == DetailResponse(load)
  IN /\ route = "MarketDetail"
     /\ load.pc = "waiting"
     /\ detailLoads' = [detailLoads EXCEPT ![l].pc = "done", ![l].sawCancelled = Cancelled(load)]
     /\ detail' = IF ~mounted THEN detail
                  ELSE [detail EXCEPT !.market = res.market, !.orderbook = res.orderbook,
                                      !.trades = res.trades, !.loading = FALSE]
     /\ UNCHANGED <<world, mounted, inflight, scannerVars, chartVars, fetchAll, lateCalls, table, tableLoads>>

\* load l resumes after Promise.all fulfilled: lines 156-159 and the finally
\* block
DetailLoadOk(l) ==
  LET load == detailLoads[l]
      res == DetailResponse(load)
  IN /\ route = "MarketDetail"
     /\ load.pc = "waiting"
     /\ detailLoads' = [detailLoads EXCEPT ![l].pc = "done", ![l].sawCancelled = Cancelled(load)]
     /\ detail' = IF Cancelled(load) THEN detail
                  ELSE [detail EXCEPT !.market = res.market, !.orderbook = res.orderbook,
                                      !.trades = res.trades, !.loading = FALSE]
     /\ UNCHANGED <<world, mounted, inflight, scannerVars, chartVars, fetchAll, lateCalls, table, tableLoads>>

\* load l resumes after Promise.all rejected: the catch and the finally block
DetailLoadFail(l) ==
  LET load == detailLoads[l]
  IN /\ route = "MarketDetail"
     /\ load.pc = "waiting"
     /\ detailLoads' = [detailLoads EXCEPT ![l].pc = "failed", ![l].sawCancelled = Cancelled(load)]
     /\ detail' = IF Cancelled(load) THEN detail
                  ELSE [detail EXCEPT !.error = Some("Failed to fetch"), !.loading = FALSE]
     /\ UNCHANGED <<world, mounted, inflight, scannerVars, chartVars, fetchAll, lateCalls, table, tableLoads>>

\* the page is left: the cleanup sets cancelled and clears the interval
UnmountDetail ==
  /\ route = "MarketDetail" /\ mounted
  /\ mounted' = FALSE
  /\ UNCHANGED <<world, inflight, scannerVars, chartVars, fetchAll, lateCalls, pageVars>>

\* MarketDetail after its first render and its effect: load() is at its await
InitDetail ==
  /\ route = "MarketDetail"
  /\ mounted = TRUE
  /\ \E ticker \in DetailTickers :
       /\ detail = [DetailInitial EXCEPT !.ticker = ticker, !.effect = 1]
       /\ detailLoads = <<DetailLoadStart(1, ticker, 1)>>
  /\ table = TableInitial /\ tableLoads = <<>>

\* SpecPages: the two pages of the dashboard against the small upstream
InitPages ==
  /\ catalog = "small"
  /\ failing = [trades |-> {}, orderbook |-> {}]
  /\ call = NoCall
  /\ inflight = {}
  /\ scanner = ScannerInitial /\ loadAll = LoadAllIdle /\ scans = <<>> /\ writer = WriterNone
  /\ props = None /\ chart = ChartInitial /\ computes = <<>>
  /\ fetchAll = FetchAllIdle
  /\ lateCalls = {}
  /\ (InitTable \/ InitDetail)

NextPages ==
  \/ TablePoll
  \/ LoadMore
  \/ \E l \in 1..Len(tableLoads) : \E next \in NextCursors(PageOf(tableLoads[l].cursor)) : TableLoadOk(l, next)
  \/ \E l \in 1..Len(tableLoads) : TableLoadFail(l)
  \/ UnmountTable
  \/ DetailPoll
  \/ \E ticker \in DetailTickers : DetailNavigate(ticker)
  \/ \E l \in 1..Len(detailLoads) : DetailLoadOk(l)
  \/ \E l \in 1..Len(detailLoads) : DetailLoadFail(l)
  \/ UnmountDetail

SpecPages == InitPages /\ [][NextPages]_vars

(***************************************************************************)
(* MarketDetail: loads and their responses                                 *)
(***************************************************************************)
\* load l settles in this step
Settles(l) == detailLoads[l].pc = "waiting" /\ detailLoads'[l].pc # "waiting"

\* what MarketDetail displays
Displayed(d) == <<d.market, d.orderbook, d.trades, d.error, d.loading>>

\* a response of a load whose ticker is no longer the route's, or that
\* arrives after the unmount, changes nothing that is displayed
StaleResponseIgnored ==
  \A l \in 1..Len(detailLoads) :
    (Settles(l) /\ (~mounted \/ detailLoads[l].effect # detail.effect))
      => Displayed(detail') = Displayed(detail)

\* every load that is issued is one of the live effect, for the route's
\* ticker, while the page is mounted
OnlyLiveEffectLoads ==
  Len(detailLoads') > Len(detailLoads) =>
    /\ mounted'
    /\ detailLoads'[Len(detailLoads')].effect = detail'.effect
    /\ detailLoads'[Len(detailLoads')].ticker = detail'.ticker

\* C25: once the route ticker changes or the component unmounts, no response
\* of a load for the previous ticker changes market, orderbook, trades, error
\* or loading, and the poll of the previous ticker issues no further load
PreviousTickerIsSilent == [][StaleResponseIgnored /\ OnlyLiveEffectLoads]_vars

\* a load of the previous ticker was answered after the route had changed,
\* and the market of the new ticker is displayed
LateAnswerAfterNavigation ==
  /\ mounted
  /\ \E l \in 1..Len(detailLoads) :
       /\ detailLoads[l].pc = "done" /\ detailLoads[l].sawCancelled
       /\ detailLoads[l].ticker # detail.ticker
  /\ detail.market # None /\ detail.market[1].ticker = detail.ticker

\* the loads of the live effect
LiveLoads == {l \in 1..Len(detailLoads) : detailLoads[l].effect = detail.effect}

\* once the loads of the route's ticker have all settled, what is displayed
\* is the outcome of the load issued last
LastIssuedLoadDisplayed ==
  (mounted /\ LiveLoads # {} /\ \A l \in LiveLoads : detailLoads[l].pc # "waiting") =>
    LET last == CHOOSE l \in LiveLoads : \A k \in LiveLoads : k <= l
    IN IF detailLoads[last].pc = "done"
       THEN detail.market = DetailResponse(detailLoads[last]).market /\ detail.error = None
       ELSE detail.error # None

\* the response of a load does not replace what a load issued after it has
\* displayed
OlderResponseKeepsNewer ==
  \A l \in 1..Len(detailLoads) :
    (Settles(l) /\ \E k \in (l + 1)..Len(detailLoads) :
                     detailLoads[k].effect = detailLoads[l].effect /\ detailLoads[k].pc # "waiting")
      => /\ detail'.market = detail.market
         /\ detail'.orderbook = detail.orderbook
         /\ detail'.trades = detail.trades
         /\ detail'.error = detail.error

\* C26: for a fixed ticker, when the poll issues a new load while an earlier
\* one is pending, the displayed data end up being those of the most recently
\* issued load: a late response of an older load never overwrites newer data
\* or a newer error
NewestLoadWins == []LastIssuedLoadDisplayed /\ [][OlderResponseKeepsNewer]_vars

(***************************************************************************)
(* MarketTable: the pages of the list                                      *)
(***************************************************************************)
RECURSIVE MarketsOfPages(_)
MarketsOfPages(pages) ==
  IF pages = <<>> THEN <<>>
  ELSE FlattenCategorized(EventsPage(catalog, Head(pages).page)) \o MarketsOfPages(Tail(pages))

\* C27: after any interleaving of the refresh loadMarkets(false, null) and
\* the LOAD MORE loadMarkets(true, cursor), the markets list is the
\* concatenation of consecutive upstream pages starting from the first, no
\* page skipped or repeated, and cursor is the cursor returned with the last
\* page in the list
ListIsConsecutivePages ==
  /\ table.markets = MarketsOfPages(table.pages)
  /\ \A i \in 1..Len(table.pages) : table.pages[i].page = i
  /\ table.pages # <<>> => table.cursor = table.pages[Len(table.pages)].cursor

(***************************************************************************)
(* Scanner: loading and the scans in flight                                *)
(***************************************************************************)
\* the scans that found their reference and have not made their last state
\* update
ScansInFlight == {s \in 1..Len(scans) : scans[s].pc # "done"}

LoadingCoversScans ==
  /\ (mounted /\ ScansInFlight # {}) => scanner.loading
  /\ Cardinality(ScansInFlight) <= 1

LoadingEndsWithLastScan ==
  (scanner.loading /\ ~scanner'.loading) => \A s \in 1..Len(scans') : scans'[s].pc = "done"

\* C28: loading is true at every moment some runScan is in flight, after it
\* found its reference and before its last state update, and it becomes false
\* only when no scan remains in flight; hence at most one scan writes results
\* at a time
LoadingWhileAnyScanInFlight == []LoadingCoversScans /\ [][LoadingEndsWithLastScan]_vars

\* the positions of the recent and of the older window in a list of n trades
RecentWindow(n) == 1..3

OlderWindow(n) == (n - 2)..n

RisesOverTime(trades) ==
  \A i, j \in 1..Len(trades) :
    trades[i].created_time < trades[j].created_time => PriceOf(trades[i]) < PriceOf(trades[j])

FallsOverTime(trades) ==
  \A i, j \in 1..Len(trades) :
    trades[i].created_time < trades[j].created_time => PriceOf(trades[i]) > PriceOf(trades[j])

\* the trades fetchTrades delivers for a ticker
DeliveredTrades(ticker) ==
  LET body == TradesBody(catalog, ticker)
  IN IF "trades" \in DOMAIN body THEN body.trades ELSE <<>>

\* C30: on the trade lists the Scanner passes to computeMomentum, newest
\* first, direction and velocity agree in sign: where the prices strictly
\* rise over time and direction is 'UP' the velocity is > 0, where they
\* strictly fall and direction is 'DOWN' the velocity is < 0
DirectionAndVelocityAgree ==
  \A k \in 1..Len(scanner.results) :
    LET e == scanner.results[k]
    IN ("momentumDir" \in DOMAIN e /\ "velocity" \in DOMAIN e) =>
         /\ (RisesOverTime(DeliveredTrades(e.ticker)) /\ e.momentumDir = "UP") => e.velocity.n > 0
         /\ (FallsOverTime(DeliveredTrades(e.ticker)) /\ e.momentumDir = "DOWN") => e.velocity.n < 0

====
